---------------------------- MODULE Spec2Model ----------------------------
(***************************************************************************)
(* A model of the n8n webhook voice agent: the streaming LLM adapter       *)
(* (src/src/n8n_agent.py: N8nWebhookLLM and N8nLLMStream), and the request *)
(* building of the scheduling webhook client and of the remote             *)
(* persistence client.                                                     *)
(*                                                                         *)
(* Python strings are sequences of one-character strings, so that slicing, *)
(* concatenation, substring search and len() are computed on them.         *)
(***************************************************************************)
EXTENDS Integers, Sequences, FiniteSets, TLC

\* the string literals of n8n_agent.py: the four fallback texts, the header and
\* turn-id prefixes, the words looked for, the keys tried on a JSON body
AgentText ==
  [TEXT_NO_RESPONSE |->
      <<"I"," ","c","o","u","l","d","n","'","t"," ","g","e","n","e","r","a","t","e"," ","a",
         " ","r","e","s","p","o","n","s","e",".">>,
   TEXT_TROUBLE |->
      <<"I","'","m"," ","h","a","v","i","n","g"," ","t","r","o","u","b","l","e"," ","p","r",
         "o","c","e","s","s","i","n","g"," ","y","o","u","r"," ","r","e","q","u","e","s",
         "t"," ","r","i","g","h","t"," ","n","o","w",".">>,
   TEXT_TIMED_OUT |->
      <<"T","h","e"," ","r","e","q","u","e","s","t"," ","t","i","m","e","d"," ","o","u","t",
         "."," ","P","l","e","a","s","e"," ","t","r","y"," ","a","g","a","i","n",".">>,
   TEXT_ERROR |->
      <<"I"," ","e","n","c","o","u","n","t","e","r","e","d"," ","a","n"," ","e","r","r","o",
         "r","."," ","P","l","e","a","s","e"," ","t","r","y"," ","a","g","a","i","n",".">>,
   STR_BEARER |->
      <<"B","e","a","r","e","r"," ">>,
   STR_T_ |->
      <<"t","_">>,
   STR_APPLICATION_JSON |->
      <<"a","p","p","l","i","c","a","t","i","o","n","/","j","s","o","n">>,
   STR_TIMEOUT |->
      <<"t","i","m","e","o","u","t">>,
   KEY_OUTPUT |->
      <<"o","u","t","p","u","t">>,
   KEY_RESPONSE |->
      <<"r","e","s","p","o","n","s","e">>,
   KEY_TEXT |->
      <<"t","e","x","t">>,
   KEY_MESSAGE |->
      <<"m","e","s","s","a","g","e">>]

\* the string literals of webhook_client.py and tool_handlers.py: the endpoints, the
\* keys of raw_arguments and of the results, and the texts of the error dicts
ClientText ==
  [EP_CHECK_AVAILABILITY |->
      <<"c","h","e","c","k","_","a","v","a","i","l","a","b","i","l","i","t","y">>,
   EP_BOOK_APPOINTMENT |->
      <<"b","o","o","k","_","a","p","p","o","i","n","t","m","e","n","t">>,
   EP_LOG_APPOINTMENT |->
      <<"l","o","g","_","a","p","p","o","i","n","t","m","e","n","t">>,
   STR_HTTP_ |->
      <<"H","T","T","P"," ">>,
   STR_REQUEST_TIMED_OUT |->
      <<"R","e","q","u","e","s","t"," ","t","i","m","e","d"," ","o","u","t">>,
   STR_ERROR |->
      <<"e","r","r","o","r">>,
   STR_DETAIL |->
      <<"d","e","t","a","i","l">>,
   KEY_START_DATETIME |->
      <<"s","t","a","r","t","_","d","a","t","e","t","i","m","e">>,
   KEY_END_DATETIME |->
      <<"e","n","d","_","d","a","t","e","t","i","m","e">>,
   KEY_SUMMARY |->
      <<"s","u","m","m","a","r","y">>,
   KEY_EVENT |->
      <<"e","v","e","n","t">>,
   KEY_DATE |->
      <<"d","a","t","e">>,
   KEY_START_TIME |->
      <<"s","t","a","r","t","_","t","i","m","e">>,
   KEY_END_TIME |->
      <<"e","n","d","_","t","i","m","e">>,
   KEY_PATIENT_NAME |->
      <<"p","a","t","i","e","n","t","_","n","a","m","e">>,
   KEY_BIRTH_DATE |->
      <<"b","i","r","t","h","_","d","a","t","e">>,
   KEY_PHONE_NUMBER |->
      <<"p","h","o","n","e","_","n","u","m","b","e","r">>,
   KEY_REASON |->
      <<"r","e","a","s","o","n">>,
   KEY_AVAILABLE |->
      <<"a","v","a","i","l","a","b","l","e">>]

\* the string literals of n8n_persistence.py: the endpoint, the content types, the
\* name of the audio part
PersistText ==
  [CT_JSON_UTF8 |->
      <<"a","p","p","l","i","c","a","t","i","o","n","/","j","s","o","n",";"," ","c","h","a",
         "r","s","e","t","=","u","t","f","-","8">>,
   EP_STORE_CONVERSATION |->
      <<"s","t","o","r","e","_","c","o","n","v","e","r","s","a","t","i","o","n">>,
   CT_AUDIO_MPEG |->
      <<"a","u","d","i","o","/","m","p","e","g">>,
   STR_RECORDING_MP3 |->
      <<"r","e","c","o","r","d","i","n","g",".","m","p","3">>]

\* strings the Python runtime and aiohttp produce: str() of None and of the bools,
\* the class names type(e).__name__ gives, the texts of their exceptions
RuntimeText ==
  [STR_NONE |->
      <<"N","o","n","e">>,
   STR_TRUE |->
      <<"T","r","u","e">>,
   STR_FALSE |->
      <<"F","a","l","s","e">>,
   MSG_CONNECTION_TIMEOUT |->
      <<"C","o","n","n","e","c","t","i","o","n"," ","T","i","m","e","o","u","t"," ","t","o",
         " ","h","o","s","t">>,
   MSG_INVALID_BYTE |->
      <<"i","n","v","a","l","i","d"," ","s","t","a","r","t"," ","b","y","t","e">>,
   NAME_TimeoutError |->
      <<"T","i","m","e","o","u","t","E","r","r","o","r">>,
   NAME_ServerTimeoutError |->
      <<"S","e","r","v","e","r","T","i","m","e","o","u","t","E","r","r","o","r">>,
   NAME_ClientError |->
      <<"C","l","i","e","n","t","E","r","r","o","r">>,
   NAME_ClientConnectionError |->
      <<"C","l","i","e","n","t","C","o","n","n","e","c","t","i","o","n","E","r","r","o","r"
         >>,
   NAME_ClientPayloadError |->
      <<"C","l","i","e","n","t","P","a","y","l","o","a","d","E","r","r","o","r">>,
   NAME_ContentTypeError |->
      <<"C","o","n","t","e","n","t","T","y","p","e","E","r","r","o","r">>,
   NAME_JSONDecodeError |->
      <<"J","S","O","N","D","e","c","o","d","e","E","r","r","o","r">>,
   NAME_UnicodeDecodeError |->
      <<"U","n","i","c","o","d","e","D","e","c","o","d","e","E","r","r","o","r">>,
   NAME_Exception |->
      <<"E","x","c","e","p","t","i","o","n">>,
   MSG_UNEXPECTED_MIMETYPE |->
      <<"A","t","t","e","m","p","t"," ","t","o"," ","d","e","c","o","d","e"," ","J","S","O",
         "N"," ","w","i","t","h"," ","u","n","e","x","p","e","c","t","e","d"," ","m","i",
         "m","e","t","y","p","e">>,
   MSG_NO_ATTRIBUTE_GET |->
      <<" ","o","b","j","e","c","t"," ","h","a","s"," ","n","o"," ","a","t","t","r","i","b","u","t","e"," ","'","g","e","t","'">>,
   TYPE_NONE |->
      <<"N","o","n","e","T","y","p","e">>,
   TYPE_STR |->
      <<"s","t","r">>,
   TYPE_LIST |->
      <<"l","i","s","t">>,
   TYPE_BOOL |->
      <<"b","o","o","l">>,
   TYPE_INT |->
      <<"i","n","t">>,
   MSG_FREE_VARIABLE |->
      <<"c","a","n","n","o","t"," ","a","c","c","e","s","s"," ","f","r","e","e"," ","v","a","r","i","a","b","l","e"," ","'","e","g","r","e","s","s","_","i","d","'"," ","w","h","e","r","e"," ","i","t"," ","i","s"," ","n","o","t"," ","a","s","s","o","c","i","a","t","e","d"," ","w","i","t","h"," ","a"," ","v","a","l","u","e"," ","i","n"," ","e","n","c","l","o","s","i","n","g"," ","s","c","o","p","e">>]

\* the sample values the inputs are built from: tokens, URLs, bodies, keys, the
\* fields of an appointment and of a conversation
SampleText ==
  [CT_TEXT_PLAIN |->
      <<"t","e","x","t","/","p","l","a","i","n">>,
   MSG_CONNECTION_FAILED |->
      <<"C","o","n","n","e","c","t","i","o","n"," ","f","a","i","l","e","d">>,
   MSG_EMPTY |->
      <<>>,
   TOKEN_A |->
      <<"t","o","k">>,
   TOKEN_B |->
      <<"s","3","c","r","e","t">>,
   RAW_NOT_JSON |->
      <<"N","o","t"," ","v","a","l","i","d"," ","J","S","O","N">>,
   RAW_OUTPUT_X |->
      <<"{","\"","o","u","t","p","u","t","\"",":"," ","\"","X","\"","}">>,
   RAW_TRUNCATED |->
      <<"{","\"","o","u","t","p","u","t","\"",":"," ","\"","X">>,
   KEY_OTHER |->
      <<"m","e","t","a","d","a","t","a">>,
   URL_PLAIN |->
      <<"h","t","t","p",":","/","/","n","8","n","/","h","o","o","k">>,
   URL_SLASH |->
      <<"h","t","t","p",":","/","/","n","8","n","/","h","o","o","k","/">>,
   KEY_AVAILABLE |->
      <<"a","v","a","i","l","a","b","l","e">>,
   STR_SERVER_ERROR |->
      <<"S","e","r","v","e","r"," ","E","r","r","o","r">>,
   RAW_AVAILABLE_TRUE |->
      <<"{","\"","a","v","a","i","l","a","b","l","e","\"",":"," ","t","r","u","e","}">>,
   STR_AGENT |->
      <<"C","a","m","i","l","l","e">>,
   STR_TRANSCRIPT |->
      <<"U","s","e","r",":"," ","H","i">>,
   STR_DATE |->
      <<"2","0","2","5","-","0","1","-","1","5">>,
   STR_START |->
      <<"2","0","2","5","-","0","1","-","1","5","T","1","0",":","0","0",":","0","0">>,
   STR_END |->
      <<"2","0","2","5","-","0","1","-","1","5","T","1","0",":","3","0",":","0","0">>,
   STR_SUMMARY |->
      <<"C","h","e","c","k","u","p">>,
   AUDIO_BYTES |->
      <<"I","D","3">>,
   DIR_LOGS |->
      <<"l","o","g","s","/","c","o","n","v","e","r","s","a","t","i","o","n","s">>,
   RAW_AVAILABLE_FALSE |->
      <<"{","\"","a","v","a","i","l","a","b","l","e","\"",":"," ","f","a","l","s","e","}">>,
   URL_RECORDING |->
      <<"h","t","t","p","s",":","/","/","a","c","c","t",".","b","l","o","b",".","c","o","r","e",".","w","i","n","d","o","w","s",".","n","e","t","/","r","e","c","/","r","e","c","o","r","d","i","n","g","s","/","j","o","b",".","m","p","4">>,
   EGRESS_ID |->
      <<"E","G","_","1">>,
   NAME_ACCENTED |->
      <<"R","e","n","U+00E9","e"," ","U+00E0">>]

(***************************************************************************)
(* String helpers (Python str operations used by the code).                *)
(***************************************************************************)

Min(a, b) == IF a < b THEN a ELSE b

\* needle in hay
Contains(hay, needle) ==
  \E i \in 1..(Len(hay) - Len(needle) + 1) :
     SubSeq(hay, i, i + Len(needle) - 1) = needle

UpperCase == <<"A","B","C","D","E","F","G","H","I","J","K","L","M",
               "N","O","P","Q","R","S","T","U","V","W","X","Y","Z">>

LowerCase == <<"a","b","c","d","e","f","g","h","i","j","k","l","m",
               "n","o","p","q","r","s","t","u","v","w","x","y","z">>

\* s.lower()
Lower(s) ==
  LET LowerChar(c) == IF \E i \in 1..26 : UpperCase[i] = c
                      THEN LowerCase[CHOOSE i \in 1..26 : UpperCase[i] = c]
                      ELSE c
  IN  [i \in 1..Len(s) |-> LowerChar(s[i])]

Digits == <<"0","1","2","3","4","5","6","7","8","9">>

\* str(n) for a non-negative int
RECURSIVE Dec(_)
Dec(n) ==
  IF n < 10 THEN <<Digits[n + 1]>>
  ELSE Dec(n \div 10) \o <<Digits[(n % 10) + 1]>>

(***************************************************************************)
(* Python values as they come out of json.loads: str, None, bool, int,     *)
(* list, dict (a dict keeps its items in insertion order, keys distinct).  *)
(***************************************************************************)

PStr(s) == [t |-> "str", s |-> s]

PNone == [t |-> "none"]

PBool(b) == [t |-> "bool", b |-> b]

PInt(n) == [t |-> "int", n |-> n]

PList(items) == [t |-> "list", items |-> items]

PDict(items) == [t |-> "dict", items |-> items]

\* bool(v)
Truthy(v) ==
  CASE v.t = "str" -> Len(v.s) > 0
    [] v.t = "none" -> FALSE
    [] v.t = "bool" -> v.b
    [] v.t = "int" -> v.n # 0
    [] v.t = "list" -> Len(v.items) > 0
    [] v.t = "dict" -> Len(v.items) > 0
    [] v.t = "bytes" -> Len(v.s) > 0

\* d.get(key, default)
DictGet(d, key, default) ==
  IF \E i \in 1..Len(d.items) : d.items[i][1] = key
  THEN d.items[CHOOSE i \in 1..Len(d.items) : d.items[i][1] = key][2]
  ELSE default

\* a or b
PyOr(a, b) == IF Truthy(a) THEN a ELSE b

\* ", ".join(parts)
RECURSIVE JoinComma(_)
JoinComma(parts) ==
  IF Len(parts) = 0 THEN << >>
  ELSE IF Len(parts) = 1 THEN parts[1]
  ELSE parts[1] \o <<",", " ">> \o JoinComma(Tail(parts))

\* repr(v)
RECURSIVE PyRepr(_)
PyRepr(v) ==
  CASE v.t = "str" -> <<"'">> \o v.s \o <<"'">>
    [] v.t = "none" -> RuntimeText.STR_NONE
    [] v.t = "bool" -> IF v.b THEN RuntimeText.STR_TRUE ELSE RuntimeText.STR_FALSE
    [] v.t = "int" -> Dec(v.n)
    [] v.t = "list" ->
         <<"[">> \o JoinComma([i \in 1..Len(v.items) |-> PyRepr(v.items[i])]) \o <<"]">>
    [] v.t = "dict" ->
         <<"{">>
         \o JoinComma([i \in 1..Len(v.items) |->
               <<"'">> \o v.items[i][1] \o <<"'", ":", " ">> \o PyRepr(v.items[i][2])])
         \o <<"}">>

\* str(v)
PyStr(v) == IF v.t = "str" THEN v.s ELSE PyRepr(v)

(***************************************************************************)
(* Exceptions: a class name and str(e).                                    *)
(***************************************************************************)

Exc(cls, msg) == [cls |-> cls, msg |-> msg]

\* no exception raised
NoExc == Exc("none", << >>)

\* isinstance(e, base): Ancestors gives the classes each exception class derives from
\* (itself included)
IsInstance(e, base) ==
  LET Ancestors(cls) ==
        CASE cls = "asyncio.TimeoutError" -> {"asyncio.TimeoutError", "Exception"}
          [] cls = "TimeoutError" -> {"TimeoutError", "OSError", "Exception"}
          [] cls = "aiohttp.ServerTimeoutError" ->
               {"aiohttp.ServerTimeoutError", "asyncio.TimeoutError",
                "aiohttp.ClientError", "Exception"}
          [] cls = "aiohttp.ClientError" -> {"aiohttp.ClientError", "Exception"}
          [] cls = "aiohttp.ClientConnectionError" ->
               {"aiohttp.ClientConnectionError", "aiohttp.ClientError", "Exception"}
          [] cls = "aiohttp.ClientPayloadError" ->
               {"aiohttp.ClientPayloadError", "aiohttp.ClientError", "Exception"}
          [] cls = "aiohttp.ContentTypeError" ->
               {"aiohttp.ContentTypeError", "aiohttp.ClientError", "Exception"}
          [] cls = "json.JSONDecodeError" -> {"json.JSONDecodeError", "ValueError", "Exception"}
          [] cls = "UnicodeDecodeError" -> {"UnicodeDecodeError", "ValueError", "Exception"}
          [] OTHER -> {cls}
  IN  base \in Ancestors(e.cls)

(***************************************************************************)
(* An HTTP response as the adapter sees it: status, the content-type       *)
(* header ("" when absent), the body text, what json.loads makes of the    *)
(* body ([t |-> "invalid"] when it is not JSON), and the exception that    *)
(* reading the body raises (NoExc when the body is read).                  *)
(***************************************************************************)

Response(status, ctype, raw, parsed, readExc) ==
  [status |-> status, ctype |-> ctype, raw |-> raw, parsed |-> parsed, readExc |-> readExc]

InvalidJson == [t |-> "invalid"]

\* the result of a block of code: the exception it raised (NoExc if none) and its value
Raise(e) == [exc |-> e, val |-> PNone]

Return(v) == [exc |-> NoExc, val |-> v]

\* await response.text()
ResponseTextBody(r) ==
  IF r.readExc # NoExc THEN Raise(r.readExc) ELSE Return(PStr(r.raw))

\* await response.json(): the body is read, the content type is checked, an empty
\* body gives None, anything else goes to json.loads
ResponseJson(r) ==
  LET \* the content types json() accepts: those that start with application/json
      AcceptsAsJson(ctype) ==
        SubSeq(Lower(ctype), 1, Min(Len(ctype), Len(AgentText.STR_APPLICATION_JSON)))
          = AgentText.STR_APPLICATION_JSON
  IN
  IF r.readExc # NoExc THEN Raise(r.readExc)
  ELSE IF ~AcceptsAsJson(r.ctype)
  THEN Raise(Exc("aiohttp.ContentTypeError", RuntimeText.MSG_UNEXPECTED_MIMETYPE))
  ELSE IF r.raw = << >> THEN Return(PNone)
  ELSE IF r.parsed = InvalidJson THEN Raise(Exc("json.JSONDecodeError", SampleText.MSG_EMPTY))
  ELSE Return(r.parsed)

\* the keys tried on a dict body, in order
CandidateKeys == <<AgentText.KEY_OUTPUT, AgentText.KEY_RESPONSE, AgentText.KEY_TEXT, AgentText.KEY_MESSAGE>>

\* the keys tried with response before output
FirstTruthy_ResponseFirst(data) ==
  PyOr(DictGet(data, CandidateKeys[2], PNone),
    PyOr(DictGet(data, CandidateKeys[1], PNone),
      PyOr(DictGet(data, CandidateKeys[3], PNone),
        PyOr(DictGet(data, CandidateKeys[4], PNone), PStr(<< >>)))))

\* data.get("output") or data.get("response") or data.get("text") or data.get("message") or ""
FirstTruthy(data) ==
  PyOr(DictGet(data, CandidateKeys[1], PNone),
    PyOr(DictGet(data, CandidateKeys[2], PNone),
      PyOr(DictGet(data, CandidateKeys[3], PNone),
        PyOr(DictGet(data, CandidateKeys[4], PNone), PStr(<< >>)))))

\* the text taken from a dict value of one of the keys
NestedText(text) ==
  LET nested_text == DictGet(text, AgentText.KEY_TEXT, PStr(<< >>))
  IN  IF Truthy(nested_text) /\ nested_text # PStr(<< >>) THEN nested_text ELSE PStr(<< >>)

\* the text taken from the parsed JSON body
ExtractText(data) ==
  IF data.t = "dict"
  THEN LET text == FirstTruthy(data)
       IN  IF text.t = "dict" THEN NestedText(text) ELSE text
  ELSE IF data.t = "str" THEN data
  ELSE PStr(PyStr(data))

\* "application/json" in content_type
IsJsonContentType(content_type) == Contains(content_type, AgentText.STR_APPLICATION_JSON)

\* the text of an HTTP 200 response before the final str()/fallback
Status200Text(r) ==
  IF IsJsonContentType(r.ctype)
  THEN LET j == ResponseJson(r)
       IN  IF j.exc = NoExc THEN Return(ExtractText(j.val))
           ELSE IF IsInstance(j.exc, "json.JSONDecodeError") THEN ResponseTextBody(r)
           ELSE j
  ELSE ResponseTextBody(r)

\* str(text) without the fallback for a falsy text
EnsureString_NoFallback(text) == PyStr(text)

\* text = str(text) if text else "I couldn't generate a response."
EnsureString(text) == IF Truthy(text) THEN PyStr(text) ELSE AgentText.TEXT_NO_RESPONSE

\* the branch taken on a non-200 status: the body is read, then the fixed text
StatusErrorText(r) ==
  LET body == ResponseTextBody(r)
  IN  IF body.exc # NoExc THEN body ELSE Return(PStr(AgentText.TEXT_TROUBLE))

\* the body of "async with session.post(...) as response"
HandleResponse(r) ==
  IF r.status = 200
  THEN LET t == Status200Text(r)
       IN  IF t.exc # NoExc THEN t ELSE Return(PStr(EnsureString(t.val)))
  ELSE StatusErrorText(r)

\* a timeout test that looks at the class only, not at the message
IsTimeoutExc_ClassOnly(e) ==
  \/ IsInstance(e, "asyncio.TimeoutError")
  \/ IsInstance(e, "aiohttp.ServerTimeoutError")

\* the except clauses of _fetch_response: the text for a raised exception
IsTimeoutExc(e) ==
  \/ IsInstance(e, "asyncio.TimeoutError")
  \/ IsInstance(e, "aiohttp.ServerTimeoutError")
  \/ /\ IsInstance(e, "Exception")
     /\ \/ Contains(Lower(e.msg), AgentText.STR_TIMEOUT)
        \/ IsInstance(e, "TimeoutError")

\* except clauses without the final "except Exception"
ExceptClauses_NoCatchAll(e) ==
  IF IsInstance(e, "asyncio.TimeoutError") \/ IsInstance(e, "aiohttp.ServerTimeoutError")
  THEN [raised |-> FALSE, text |-> AgentText.TEXT_TIMED_OUT]
  ELSE [raised |-> TRUE, text |-> << >>]

\* the except clauses of _fetch_response: the text they resolve, or that e propagates

ExceptClauses(e) ==
  IF IsTimeoutExc(e) THEN [raised |-> FALSE, text |-> AgentText.TEXT_TIMED_OUT]
  ELSE IF IsInstance(e, "Exception") THEN [raised |-> FALSE, text |-> AgentText.TEXT_ERROR]
  ELSE [raised |-> TRUE, text |-> << >>]

(***************************************************************************)
(* An upstream outcome of one POST: an exception raised by the transport,  *)
(* or an HTTP response.                                                    *)
(***************************************************************************)

ExcOutcome(e) == [kind |-> "exc", exc |-> e]

HttpOutcome(r) == [kind |-> "http", resp |-> r]

\* the try block of _fetch_response
TryBlock(o) == IF o.kind = "exc" THEN Raise(o.exc) ELSE HandleResponse(o.resp)

\* the text _fetch_response resolves for an outcome, or that it raised
ResolveText(o) ==
  LET t == TryBlock(o)
  IN  IF t.exc = NoExc THEN [raised |-> FALSE, text |-> t.val.s]
      ELSE ExceptClauses(t.exc)

(***************************************************************************)
(* Message histories (ChatContext objects) handed to chat().  A context    *)
(* has an identity (the key of the adapter's side table) and exposes its   *)
(* messages through .messages, .items or iteration, through none of them,  *)
(* or raises when they are read.                                           *)
(***************************************************************************)

Msg(role, content) == [role |-> role, content |-> content]

\* message content: a str, a list of parts, an object with .text, or None
CStr(s) == [t |-> "str", s |-> s]

CList(parts) == [t |-> "list", parts |-> parts]

CObj(text) == [t |-> "obj", text |-> text]

CNone == [t |-> "none"]

\* a part of a list content: a str, an object with .text, or an object without
PartStr(s) == [t |-> "str", s |-> s]

PartObj(text) == [t |-> "obj", text |-> text]

PartOther == [t |-> "other"]

ChatCtx(id, access, msgs) == [id |-> id, access |-> access, msgs |-> msgs]

\* the first part that is a str or has .text decides (inner for loop, with its breaks)
RECURSIVE FirstPartText(_, _)
FirstPartText(parts, user_message) ==
  IF Len(parts) = 0 THEN user_message
  ELSE IF Head(parts).t = "str" THEN PStr(Head(parts).s)
  ELSE IF Head(parts).t = "obj" THEN Head(parts).text
  ELSE FirstPartText(Tail(parts), user_message)

\* user_message after the content of one user message was looked at
ContentText(content, user_message) ==
  CASE content.t = "str" -> PStr(content.s)
    [] content.t = "list" -> FirstPartText(content.parts, user_message)
    [] content.t = "obj" -> content.text
    [] OTHER -> user_message

\* a scan that starts at the first message and stops at the first user text
RECURSIVE ScanReversed_OldestFirst(_, _, _)
ScanReversed_OldestFirst(msgs, k, user_message) ==
  IF k = 0 THEN user_message
  ELSE LET j == Len(msgs) - k + 1
       IN  IF msgs[j].role = "user"
           THEN LET um == ContentText(msgs[j].content, user_message)
                IN  IF Truthy(um) THEN um ELSE ScanReversed_OldestFirst(msgs, k - 1, um)
           ELSE ScanReversed_OldestFirst(msgs, k - 1, user_message)

\* for msg in reversed(messages): ... if user_message: break
RECURSIVE ScanReversed(_, _, _)
ScanReversed(msgs, k, user_message) ==
  IF k = 0 THEN user_message
  ELSE IF msgs[k].role = "user"
       THEN LET um == ContentText(msgs[k].content, user_message)
            IN  IF Truthy(um) THEN um ELSE ScanReversed(msgs, k - 1, um)
       ELSE ScanReversed(msgs, k - 1, user_message)

\* an extraction that falls back to a greeting when the history cannot be read
ExtractUserMessage_HelloFallback(chat_ctx) ==
  IF chat_ctx.access \in {"raises", "none"} THEN PStr(<<"H","e","l","l","o">>)
  ELSE LET um == ScanReversed(chat_ctx.msgs, Len(chat_ctx.msgs), PStr(<< >>))
       IN  IF Truthy(um) THEN um ELSE PStr(<<"H","e","l","l","o">>)

\* the try/except of chat() that extracts the latest user message
ExtractUserMessage(chat_ctx) ==
  IF chat_ctx.access = "raises" THEN PStr(<< >>)
  ELSE IF chat_ctx.access = "none" THEN PStr(<< >>)
  ELSE ScanReversed(chat_ctx.msgs, Len(chat_ctx.msgs), PStr(<< >>))

(***************************************************************************)
(* UUIDs: uuid.uuid4() gives a value distinct from every other one; it is  *)
(* modelled by a tagged tuple that names the place that generated it.      *)
(***************************************************************************)

Uuid4(tag) == <<"uuid4">> \o tag

\* a turn id that does not follow the counter
TurnId_Constant(n) == AgentText.STR_T_ \o Dec(1)

\* f"t_{turn_counter}"
TurnId(n) == AgentText.STR_T_ \o Dec(n)

\* the payload built from the counter as it was before this chat() incremented it
BuildPayload_StaleCounter(sid, counter, user_message) ==
  [session_id |-> sid,
   turn_id |-> TurnId(counter - 1),
   input |-> [type |-> "text", text |-> user_message],
   context |-> << >>,
   idempotency_key |-> Uuid4(<<"idempotency_key", counter>>)]

\* the payload chat() builds
BuildPayload(sid, counter, user_message) ==
  [session_id |-> sid,
   turn_id |-> TurnId(counter),
   input |-> [type |-> "text", text |-> user_message],
   context |-> << >>,
   idempotency_key |-> Uuid4(<<"idempotency_key", counter>>)]

\* the headers _fetch_response builds
AdapterHeaders(token) ==
  IF Truthy(token)
  THEN [h \in {"Content-Type", "Authorization"} |->
          IF h = "Content-Type" THEN AgentText.STR_APPLICATION_JSON ELSE AgentText.STR_BEARER \o PyStr(token)]
  ELSE [h \in {"Content-Type"} |-> AgentText.STR_APPLICATION_JSON]

\* chunk_size = 50
chunk_size == 50

\* a slice that runs one character into the next chunk
Slice_OneTooMany(text, i) == SubSeq(text, i + 1, Min(i + chunk_size + 1, Len(text)))

\* text[i : i + chunk_size], i counted from 0
Slice(text, i) == SubSeq(text, i + 1, Min(i + chunk_size, Len(text)))

\* the ChatChunk sent for the slice at offset i of stream s
Chunk(s, text, i) ==
  [id |-> Uuid4(<<"chunk", s, i>>),
   delta |-> [role |-> "assistant", content |-> Slice(text, i)]]

\* ChatMessage(role="assistant", content=[text])
AssistantMessage(text) == [role |-> "assistant", content |-> <<text>>]

\* no entry of the side table
NoMessage == [role |-> "none", content |-> << >>]

(***************************************************************************)
(* State of one adapter instance and of the streams it created.            *)
(***************************************************************************)

VARIABLES
  session_id,     \* N8nWebhookLLM.session_id
  webhook_token,  \* N8nWebhookLLM.webhook_token
  turn_counter,   \* N8nWebhookLLM.turn_counter
  cursors,        \* N8nWebhookLLM._cursors: context id -> ChatMessage
  streams,        \* the N8nLLMStream objects, in the order chat() created them
  wire,           \* the POST requests in the order they were written to the network
  sched,          \* the SchedulingToolHandler: base_url, api_token, session
  persist,        \* the N8nConversationPersistence: base_url, api_token, timeout, session
  calls,          \* how many calls the two clients have been given
  last_request,   \* the POST request the latest call of a client sent
  last_result,    \* what the latest call of a client returned
  conversation,   \* the ConversationData the persistence implementations are given
  local,          \* the TestConversationPersistence: the files of its output directory
  recorder,       \* the ConversationRecorder: its turns and its six optional fields
  last_call,      \* the latest call of the recorder: its name and its arguments
  agent           \* the entrypoint of one call: its event loop, its tools, its shutdown

adapterVars == <<session_id, webhook_token, turn_counter, cursors, streams, wire>>

clientVars == <<sched, persist, calls, last_request, last_result>>

recordVars == <<conversation, local, recorder, last_call, agent>>

vars == <<session_id, webhook_token, turn_counter, cursors, streams, wire,
          sched, persist, calls, last_request, last_result,
          conversation, local, recorder, last_call, agent>>

\* a new N8nLLMStream: its task is created by the base class and has not run yet
NewStream(chat_ctx, token, payload) ==
  [chat_ctx |-> chat_ctx.id,
   webhook_token |-> token,
   payload |-> payload,
   pc |-> "created",
   headers |-> << >>,
   posts |-> 0,
   outcome |-> [kind |-> "none"],
   text |-> << >>,
   i |-> 0,
   event_ch |-> << >>,
   closes |-> 0,
   received |-> << >>,
   consumer |-> "iterating"]

StreamIds == 1..Len(streams)

\* a chat() that issues the POST itself, before it returns
Chat_PostsBeforeReturn(chat_ctx) ==
  /\ turn_counter' = turn_counter + 1
  /\ LET user_message == ExtractUserMessage(chat_ctx)
         payload == BuildPayload(session_id, turn_counter', user_message)
     IN  /\ streams' = Append(streams,
                [NewStream(chat_ctx, webhook_token, payload) EXCEPT
                   !.pc = "awaiting", !.posts = 1,
                   !.headers = AdapterHeaders(webhook_token)])
         /\ wire' = Append(wire, [stream |-> Len(streams) + 1,
                                  json |-> payload,
                                  headers |-> AdapterHeaders(webhook_token)])
  /\ UNCHANGED <<session_id, webhook_token, cursors>>
  /\ UNCHANGED clientVars
  /\ UNCHANGED recordVars

\* N8nWebhookLLM.chat
Chat(chat_ctx) ==
  /\ turn_counter' = turn_counter + 1
  /\ LET user_message == ExtractUserMessage(chat_ctx)
         payload == BuildPayload(session_id, turn_counter', user_message)
     IN  streams' = Append(streams, NewStream(chat_ctx, webhook_token, payload))
  /\ UNCHANGED <<session_id, webhook_token, cursors, wire>>
  /\ UNCHANGED clientVars
  /\ UNCHANGED recordVars

\* _fetch_response up to its first suspension: headers, session, session.post(...)
StartFetch(s) ==
  /\ streams[s].pc = "created"
  /\ streams' = [streams EXCEPT ![s].pc = "connecting",
                                ![s].headers = AdapterHeaders(streams[s].webhook_token),
                                ![s].posts = @ + 1]
  /\ UNCHANGED <<session_id, webhook_token, turn_counter, cursors, wire>>
  /\ UNCHANGED clientVars
  /\ UNCHANGED recordVars

\* the connection is up and the request is written to the network
SendRequest(s) ==
  /\ streams[s].pc = "connecting"
  /\ wire' = Append(wire, [stream |-> s,
                           json |-> streams[s].payload,
                           headers |-> streams[s].headers])
  /\ streams' = [streams EXCEPT ![s].pc = "awaiting"]
  /\ UNCHANGED <<session_id, webhook_token, turn_counter, cursors>>
  /\ UNCHANGED clientVars
  /\ UNCHANGED recordVars

\* event_ch after send_nowait(chunk) for each offset of the for loop that runs before
\* the coroutine suspends again: the first iteration (i = first), if there is one
Emit(s, text, first) ==
  IF first < Len(text) THEN <<Chunk(s, text, first)>> ELSE << >>

\* the rest of _fetch_response without the side table entry
Deliver_NoSideTable(s, o) ==
  LET res == ResolveText(o) IN
  IF res.raised
  THEN /\ streams' = [streams EXCEPT ![s].pc = "raised", ![s].outcome = o]
       /\ UNCHANGED cursors
  ELSE /\ UNCHANGED cursors
       /\ streams' = [streams EXCEPT
            ![s].outcome = o,
            ![s].text = res.text,
            ![s].event_ch = @ \o Emit(s, res.text, 0),
            ![s].i = IF 0 < Len(res.text) THEN chunk_size ELSE 0,
            ![s].pc = IF 0 < Len(res.text) THEN "sleeping" ELSE "done",
            ![s].closes = IF 0 < Len(res.text) THEN @ ELSE @ + 1]

\* the rest of _fetch_response once the text is resolved, up to the next suspension:
\* the side table entry, then the first chunk and its sleep (or close() for no chunk)
Deliver(s, o) ==
  LET res == ResolveText(o) IN
  IF res.raised
  THEN /\ streams' = [streams EXCEPT ![s].pc = "raised", ![s].outcome = o]
       /\ UNCHANGED cursors
  ELSE /\ cursors' = [cursors EXCEPT ![streams[s].chat_ctx] = AssistantMessage(res.text)]
       /\ streams' = [streams EXCEPT
            ![s].outcome = o,
            ![s].text = res.text,
            ![s].event_ch = @ \o Emit(s, res.text, 0),
            ![s].i = IF 0 < Len(res.text) THEN chunk_size ELSE 0,
            ![s].pc = IF 0 < Len(res.text) THEN "sleeping" ELSE "done",
            ![s].closes = IF 0 < Len(res.text) THEN @ ELSE @ + 1]

\* the POST fails before the request is written (connect error, connect timeout)
ConnectFail(s, e) ==
  /\ streams[s].pc = "connecting"
  /\ Deliver(s, ExcOutcome(e))
  /\ UNCHANGED <<session_id, webhook_token, turn_counter, wire>>
  /\ UNCHANGED clientVars
  /\ UNCHANGED recordVars

\* the outcome of the POST arrives
Respond(s, o) ==
  /\ streams[s].pc = "awaiting"
  /\ Deliver(s, o)
  /\ UNCHANGED <<session_id, webhook_token, turn_counter, wire>>
  /\ UNCHANGED clientVars
  /\ UNCHANGED recordVars

\* the for loop with close() inside it, after each chunk
AfterSleep_CloseInLoop(s) ==
  /\ streams[s].pc = "sleeping"
  /\ IF streams[s].i < Len(streams[s].text)
     THEN streams' = [streams EXCEPT
            ![s].event_ch = Append(@, Chunk(s, streams[s].text, streams[s].i)),
            ![s].i = @ + chunk_size,
            ![s].closes = @ + 1]
     ELSE streams' = [streams EXCEPT ![s].pc = "done", ![s].closes = @ + 1]
  /\ UNCHANGED <<session_id, webhook_token, turn_counter, cursors, wire>>
  /\ UNCHANGED clientVars
  /\ UNCHANGED recordVars

\* asyncio.sleep(0.02) returns: the next iteration of the for loop, or close()
AfterSleep(s) ==
  /\ streams[s].pc = "sleeping"
  /\ IF streams[s].i < Len(streams[s].text)
     THEN streams' = [streams EXCEPT
            ![s].event_ch = Append(@, Chunk(s, streams[s].text, streams[s].i)),
            ![s].i = @ + chunk_size]
     ELSE streams' = [streams EXCEPT ![s].pc = "done", ![s].closes = @ + 1]
  /\ UNCHANGED <<session_id, webhook_token, turn_counter, cursors, wire>>
  /\ UNCHANGED clientVars
  /\ UNCHANGED recordVars

\* an __anext__ that reads from whichever stream of the adapter has a chunk waiting
Anext_AnyChannel(s) ==
  /\ streams[s].consumer = "iterating"
  /\ IF \E t \in StreamIds : Len(streams[t].event_ch) > 0
     THEN LET t == CHOOSE t \in StreamIds : Len(streams[t].event_ch) > 0
          IN  streams' = [streams EXCEPT ![s].received = Append(@, Head(streams[t].event_ch)),
                                         ![t].event_ch = Tail(@)]
     ELSE /\ streams[s].pc \in {"done", "raised"}
          /\ streams' = [streams EXCEPT ![s].consumer =
                            IF streams[s].pc = "done" THEN "ended" ELSE "error"]
  /\ UNCHANGED <<session_id, webhook_token, turn_counter, cursors, wire>>
  /\ UNCHANGED clientVars
  /\ UNCHANGED recordVars

\* N8nLLMStream.__anext__ of the stream's consumer
Anext(s) ==
  /\ streams[s].consumer = "iterating"
  /\ IF Len(streams[s].event_ch) > 0
     THEN streams' = [streams EXCEPT ![s].received = Append(@, Head(streams[s].event_ch)),
                                    ![s].event_ch = Tail(@)]
     ELSE /\ streams[s].pc \in {"done", "raised"}
          /\ streams' = [streams EXCEPT ![s].consumer =
                            IF streams[s].pc = "done" THEN "ended" ELSE "error"]
  /\ UNCHANGED <<session_id, webhook_token, turn_counter, cursors, wire>>
  /\ UNCHANGED clientVars
  /\ UNCHANGED recordVars

(***************************************************************************)
(* The scheduling webhook client (SchedulingToolHandler) and the remote    *)
(* persistence client (N8nConversationPersistence).                        *)
(***************************************************************************)

\* type(e).__name__
ClassName(cls) ==
  CASE cls \in {"asyncio.TimeoutError", "TimeoutError"} -> RuntimeText.NAME_TimeoutError
    [] cls = "aiohttp.ServerTimeoutError" -> RuntimeText.NAME_ServerTimeoutError
    [] cls = "aiohttp.ClientError" -> RuntimeText.NAME_ClientError
    [] cls = "aiohttp.ClientConnectionError" -> RuntimeText.NAME_ClientConnectionError
    [] cls = "aiohttp.ClientPayloadError" -> RuntimeText.NAME_ClientPayloadError
    [] cls = "aiohttp.ContentTypeError" -> RuntimeText.NAME_ContentTypeError
    [] cls = "json.JSONDecodeError" -> RuntimeText.NAME_JSONDecodeError
    [] cls = "UnicodeDecodeError" -> RuntimeText.NAME_UnicodeDecodeError
    [] OTHER -> RuntimeText.NAME_Exception

\* s.rstrip("/")
RECURSIVE RStripSlash(_)
RStripSlash(s) ==
  IF Len(s) > 0 /\ s[Len(s)] = "/" THEN RStripSlash(SubSeq(s, 1, Len(s) - 1)) ELSE s

\* f"{self.base_url}/{endpoint}"
EndpointUrl(base_url, endpoint) == base_url \o <<"/">> \o endpoint

\* a session created by every call, whether or not one is open
EnsureSession_AlwaysNew(client) ==
  [client EXCEPT !.session = "open", !.sessions_created = @ + 1]

\* the state after _ensure_session(): a session is created when there is none or
\* when it is closed
EnsureSession(client) ==
  IF client.session = "None" \/ client.session = "closed"
  THEN [client EXCEPT !.session = "open", !.sessions_created = @ + 1]
  ELSE client

\* a close() without its guard: session.close() is called on whatever self.session is
CloseSession_NoGuard(client) ==
  IF client.session = "None"
  THEN [client EXCEPT !.close_raised = TRUE]
  ELSE [client EXCEPT !.session = "closed", !.sessions_closed = @ + 1,
                      !.close_raised = FALSE]

\* the state after close(): "if self.session and not self.session.closed" guards the
\* only statement, await self.session.close()
CloseSession(client) ==
  IF client.session # "None" /\ client.session # "closed"
  THEN [client EXCEPT !.session = "closed", !.sessions_closed = @ + 1,
                      !.close_raised = FALSE]
  ELSE [client EXCEPT !.close_raised = FALSE]

\* headers with an Authorization entry whatever the token is
WebhookHeaders_AlwaysAuth(api_token) ==
  [h \in {"Content-Type", "Authorization"} |->
     IF h = "Content-Type" THEN AgentText.STR_APPLICATION_JSON
     ELSE AgentText.STR_BEARER \o (IF Truthy(api_token) THEN PyStr(api_token) ELSE << >>)]

\* the headers _call_webhook builds
WebhookHeaders(api_token) ==
  IF Truthy(api_token)
  THEN [h \in {"Content-Type", "Authorization"} |->
          IF h = "Content-Type" THEN AgentText.STR_APPLICATION_JSON ELSE AgentText.STR_BEARER \o PyStr(api_token)]
  ELSE [h \in {"Content-Type"} |-> AgentText.STR_APPLICATION_JSON]

\* a _call_webhook without the clause for asyncio.TimeoutError
WebhookResult_NoTimeoutClause(o) ==
  LET t == IF o.kind = "exc" THEN Raise(o.exc)
           ELSE IF o.resp.status = 200 THEN ResponseJson(o.resp)
           ELSE LET error_text == ResponseTextBody(o.resp)
                IN  IF error_text.exc # NoExc THEN error_text
                    ELSE Return(PDict(<< <<ClientText.STR_ERROR, PStr(ClientText.STR_HTTP_ \o Dec(o.resp.status))>>,
                                         <<ClientText.STR_DETAIL, error_text.val>> >>))
  IN  IF t.exc = NoExc THEN [raised |-> FALSE, val |-> t.val]
      ELSE IF IsInstance(t.exc, "aiohttp.ClientError")
      THEN [raised |-> FALSE,
            val |-> PDict(<< <<ClientText.STR_ERROR, PStr(ClassName(t.exc.cls))>>,
                             <<ClientText.STR_DETAIL, PStr(t.exc.msg)>> >>)]
      ELSE [raised |-> TRUE, val |-> PNone]

\* what _call_webhook returns for an upstream outcome
WebhookResult(o) ==
  LET t == IF o.kind = "exc" THEN Raise(o.exc)
           ELSE IF o.resp.status = 200 THEN ResponseJson(o.resp)
           ELSE LET error_text == ResponseTextBody(o.resp)
                IN  IF error_text.exc # NoExc THEN error_text
                    ELSE Return(PDict(<< <<ClientText.STR_ERROR, PStr(ClientText.STR_HTTP_ \o Dec(o.resp.status))>>,
                                         <<ClientText.STR_DETAIL, error_text.val>> >>))
  IN  IF t.exc = NoExc THEN [raised |-> FALSE, val |-> t.val]
      ELSE IF IsInstance(t.exc, "asyncio.TimeoutError")
      THEN [raised |-> FALSE,
            val |-> PDict(<< <<ClientText.STR_ERROR, PStr(AgentText.STR_TIMEOUT)>>,
                             <<ClientText.STR_DETAIL, PStr(ClientText.STR_REQUEST_TIMED_OUT)>> >>)]
      ELSE IF IsInstance(t.exc, "Exception")
      THEN [raised |-> FALSE,
            val |-> PDict(<< <<ClientText.STR_ERROR, PStr(ClassName(t.exc.cls))>>,
                             <<ClientText.STR_DETAIL, PStr(t.exc.msg)>> >>)]
      ELSE [raised |-> TRUE, val |-> PNone]

\* the default timeout of _call_webhook, in seconds
WEBHOOK_TIMEOUT == 8

\* the default timeout of N8nConversationPersistence, in seconds
PERSISTENCE_TIMEOUT == 10

\* the fields of ConversationData, in the order store_conversation lists them
DataFieldSet ==
  LET DataFields ==
      <<"voice_agent_name", "audio_recording_url", "transcript", "conversation_date",
         "patient_name", "phone_number", "birth_date", "appointment_date", "appointment_time",
         "reason", "livekit_room_name", "livekit_job_id", "total_turns", "user_turns",
         "agent_turns", "llm_prompt_tokens", "llm_completion_tokens", "llm_input_audio_tokens",
         "llm_output_audio_tokens", "stt_audio_duration_seconds", "tts_audio_duration_seconds",
         "tts_characters_count", "openai_model", "openai_voice", "test_mode">>
  IN  {DataFields[n] : n \in 1..Len(DataFields)}

\* the metadata mapping of store_conversation: the action, then every field of the
\* data whose value is not None
Metadata(data) ==
  LET kept == {f \in DataFieldSet : data[f] # PNone}
  IN  [k \in {"action"} \cup kept |->
         IF k = "action" THEN PStr(PersistText.EP_STORE_CONVERSATION) ELSE data[k]]

\* the bytes of the JSON text of a str, without its quotes, once encoded as UTF-8: with
\* ensure_ascii json writes a character outside ASCII as a \uXXXX escape, without it
\* the character itself, which UTF-8 encodes as two bytes, each written "0x" and its value
RECURSIVE JsonStringBytes(_, _)
JsonStringBytes(s, ensure_ascii) ==
  IF s = << >> THEN << >>
  ELSE LET c == Head(s)
           out == CASE c = "U+00E9" -> IF ensure_ascii THEN <<"\\","u","0","0","e","9">>
                                       ELSE <<"0xC3","0xA9">>
                    [] c = "U+00E0" -> IF ensure_ascii THEN <<"\\","u","0","0","e","0">>
                                       ELSE <<"0xC3","0xA0">>
                    [] c = "\"" -> <<"\\","\"">>
                    [] c = "\\" -> <<"\\","\\">>
                    [] OTHER -> <<c>>
       IN  out \o JsonStringBytes(Tail(s), ensure_ascii)

\* a json.dumps that leaves ensure_ascii at its default
JsonDumps_EnsureAscii(obj) == [dumps |-> obj, ensure_ascii |-> TRUE]

\* json.dumps(obj, ensure_ascii=False), kept as a term
JsonDumps(obj) == [dumps |-> obj, ensure_ascii |-> FALSE]

\* the request store_conversation sends: multipart with the audio, else a JSON body
PersistRequest(client, data, audio_data) ==
  LET bearer == AgentText.STR_BEARER \o PyStr(client.api_token)
      metadata == Metadata(data)
  IN  IF Truthy(audio_data)
      THEN [client |-> "persistence",
            call |-> calls + 1,
            session |-> EnsureSession(client).sessions_created,
            url |-> EndpointUrl(client.base_url, PersistText.EP_STORE_CONVERSATION),
            headers |-> IF Truthy(client.api_token)
                        THEN [h \in {"Authorization"} |-> bearer]
                        ELSE [h \in {} |-> << >>],
            body |-> [kind |-> "multipart",
                      fields |-> <<[name |-> "metadata",
                                    value |-> JsonDumps(metadata),
                                    content_type |-> PersistText.CT_JSON_UTF8],
                                   [name |-> "audio",
                                    value |-> audio_data,
                                    filename |-> PersistText.STR_RECORDING_MP3,
                                    content_type |-> PersistText.CT_AUDIO_MPEG]>>],
            timeout |-> client.timeout * 2]
      ELSE [client |-> "persistence",
            call |-> calls + 1,
            session |-> EnsureSession(client).sessions_created,
            url |-> EndpointUrl(client.base_url, PersistText.EP_STORE_CONVERSATION),
            headers |-> IF Truthy(client.api_token)
                        THEN [h \in {"Content-Type", "Authorization"} |->
                                IF h = "Content-Type" THEN PersistText.CT_JSON_UTF8 ELSE bearer]
                        ELSE [h \in {"Content-Type"} |-> PersistText.CT_JSON_UTF8],
            body |-> [kind |-> "json", value |-> JsonDumps(metadata), encoding |-> "utf-8"],
            timeout |-> client.timeout]

\* a store_conversation that answers by the status alone, without reading the body
PersistResult_StatusOnly(o) ==
  IF o.kind = "exc" THEN [raised |-> FALSE, val |-> PBool(FALSE)]
  ELSE [raised |-> FALSE, val |-> PBool(o.resp.status = 200)]

\* what store_conversation returns for an upstream outcome
PersistResult(o) ==
  LET t == IF o.kind = "exc" THEN Raise(o.exc)
           ELSE IF o.resp.status = 200 THEN ResponseJson(o.resp)
           ELSE ResponseTextBody(o.resp)
  IN  IF t.exc = NoExc THEN [raised |-> FALSE, val |-> PBool(o.resp.status = 200)]
      ELSE IF IsInstance(t.exc, "Exception") THEN [raised |-> FALSE, val |-> PBool(FALSE)]
      ELSE [raised |-> TRUE, val |-> PNone]

\* no request sent yet, nothing returned yet
NoRequest == [client |-> "none"]

NoResult == [outcome |-> [kind |-> "none"], raised |-> FALSE, val |-> PNone]

\* SchedulingToolHandler.__init__
NewSched(base_url, api_token) ==
  [base_url |-> RStripSlash(base_url), api_token |-> api_token,
   session |-> "None", sessions_created |-> 0, sessions_closed |-> 0,
   close_raised |-> FALSE, calls |-> 0, posts |-> 0]

\* N8nConversationPersistence.__init__
NewPersist(base_url, api_token, timeout) ==
  [base_url |-> RStripSlash(base_url), api_token |-> api_token, timeout |-> timeout,
   session |-> "None", sessions_created |-> 0, sessions_closed |-> 0,
   close_raised |-> FALSE, calls |-> 0, posts |-> 0]

\* SchedulingToolHandler._call_webhook
CallWebhook(endpoint, payload, timeout, o) ==
  /\ sched' = [EnsureSession(sched) EXCEPT !.calls = @ + 1, !.posts = @ + 1]
  /\ last_request' = [client |-> "scheduling",
                      call |-> calls + 1,
                      session |-> EnsureSession(sched).sessions_created,
                      url |-> EndpointUrl(sched.base_url, endpoint),
                      headers |-> WebhookHeaders(sched.api_token),
                      body |-> [kind |-> "json", value |-> payload],
                      timeout |-> timeout]
  /\ last_result' = [outcome |-> o,
                     raised |-> WebhookResult(o).raised,
                     val |-> WebhookResult(o).val]
  /\ calls' = calls + 1
  /\ UNCHANGED persist
  /\ UNCHANGED adapterVars

\* SchedulingToolHandler.check_availability
CheckAvailability(start_datetime, end_datetime, o) ==
  CallWebhook(ClientText.EP_CHECK_AVAILABILITY,
              [action |-> "check_availability",
               start_datetime |-> start_datetime,
               end_datetime |-> end_datetime],
              WEBHOOK_TIMEOUT, o)

\* SchedulingToolHandler.book_appointment
BookAppointment(start_datetime, end_datetime, summary, o) ==
  CallWebhook(ClientText.EP_BOOK_APPOINTMENT,
              [action |-> "book_appointment",
               start_datetime |-> start_datetime,
               end_datetime |-> end_datetime,
               summary |-> summary],
              WEBHOOK_TIMEOUT, o)

\* SchedulingToolHandler.log_appointment_details
LogAppointmentDetails(a, o) ==
  CallWebhook(ClientText.EP_LOG_APPOINTMENT,
              [action |-> "log_appointment",
               event |-> a.event,
               date |-> a.date,
               start_time |-> a.start_time,
               end_time |-> a.end_time,
               patient_name |-> a.patient_name,
               birth_date |-> a.birth_date,
               phone_number |-> a.phone_number,
               reason |-> a.reason],
              WEBHOOK_TIMEOUT, o)

\* SchedulingToolHandler.close
SchedClose ==
  /\ sched' = CloseSession(sched)
  /\ calls' = calls + 1
  /\ UNCHANGED <<persist, last_request, last_result>>
  /\ UNCHANGED adapterVars
  /\ UNCHANGED recordVars

\* N8nConversationPersistence.store_conversation
StoreConversation(data, audio_data, o) ==
  /\ persist' = [EnsureSession(persist) EXCEPT !.calls = @ + 1, !.posts = @ + 1]
  /\ last_request' = PersistRequest(persist, data, audio_data)
  /\ last_result' = [outcome |-> o,
                     raised |-> PersistResult(o).raised,
                     val |-> PersistResult(o).val]
  /\ calls' = calls + 1
  /\ UNCHANGED sched
  /\ UNCHANGED adapterVars
  /\ UNCHANGED recordVars

\* N8nConversationPersistence.close
PersistClose ==
  /\ persist' = CloseSession(persist)
  /\ calls' = calls + 1
  /\ UNCHANGED <<sched, last_request, last_result>>
  /\ UNCHANGED adapterVars
  /\ UNCHANGED recordVars

(***************************************************************************)
(* The local-file persistence (persistence/test_persistence.py) and the    *)
(* conversation recorder (persistence/conversation_recorder.py).           *)
(***************************************************************************)

\* str(self.output_dir / f"conversation_{timestamp}{ext}"); Dec(timestamp) stands for
\* the formatted time of day
LocalPath(output_dir, timestamp, ext) ==
  output_dir \o <<"/","c","o","n","v","e","r","s","a","t","i","o","n","_">>
             \o Dec(timestamp) \o ext

\* the payload of the local store_conversation: the action, the fields it lists, the
\* path of the audio file when there is audio; then every None value removed
LocalPayload(data, audio_path) ==
  LET LocalFields ==
        {"voice_agent_name", "audio_recording_url", "transcript", "conversation_date",
         "patient_name", "phone_number", "birth_date", "appointment_date",
         "appointment_time", "reason"}
      listed == [k \in {"action", "audio_file_local"} \cup LocalFields |->
                   IF k = "action" THEN PStr(PersistText.EP_STORE_CONVERSATION)
                   ELSE IF k = "audio_file_local" THEN audio_path
                   ELSE data[k]]
      kept == {k \in DOMAIN listed : listed[k] # PNone}
  IN  [k \in kept |-> listed[k]]

\* json.dump(obj, f, indent=2, ensure_ascii=False) into the file f opened with
\* encoding="utf-8", kept as a term
JsonDump(obj) == [dumps |-> obj, indent |-> 2, ensure_ascii |-> FALSE, encoding |-> "utf-8"]

\* files with one more file written, replacing a file of the same path
Written(files, path, content) ==
  [p \in DOMAIN files \cup {path} |-> IF p = path THEN content ELSE files[p]]

\* a TestConversationPersistence after __init__: an output directory with no file
NewLocal(output_dir) ==
  [output_dir |-> output_dir, files |-> << >>, calls |-> 0, returned |-> PNone]

\* TestConversationPersistence.store_conversation; failure says which open() raises
\* OSError: "audio", "json" or "none"
LocalStoreConversation(data, audio_data, timestamp, failure) ==
  LET json_filepath == LocalPath(local.output_dir, timestamp, <<".","j","s","o","n">>)
      audio_filepath == LocalPath(local.output_dir, timestamp, <<".","m","p","3">>)
      with_audio == IF Truthy(audio_data) /\ failure # "audio"
                    THEN Written(local.files, audio_filepath, audio_data)
                    ELSE local.files
      payload == LocalPayload(data, IF Truthy(audio_data) THEN PStr(audio_filepath)
                                    ELSE PNone)
  IN  /\ failure = "audio" => Truthy(audio_data)
      /\ local' = [local EXCEPT
                     !.files = IF failure = "none"
                               THEN Written(with_audio, json_filepath, JsonDump(payload))
                               ELSE with_audio,
                     !.calls = @ + 1,
                     !.returned = PBool(failure = "none")]
      /\ UNCHANGED <<conversation, recorder, last_call, agent>>
      /\ UNCHANGED adapterVars
      /\ UNCHANGED clientVars

\* the six optional fields of ConversationRecorder
RecorderFields ==
  {"patient_name", "phone_number", "birth_date", "reason", "appointment_date",
   "appointment_time"}

\* a ConversationRecorder as the dataclass builds it by default
NewRecorder ==
  [voice_agent_name |-> <<"C","a","m","i","l","l","e">>,
   turns |-> << >>,
   patient_name |-> PNone,
   phone_number |-> PNone,
   birth_date |-> PNone,
   reason |-> PNone,
   appointment_date |-> PNone,
   appointment_time |-> PNone]

\* no call of the recorder yet
NoCall == [n |-> 0, op |-> "none"]

\* add_*_message that puts the new turn in front of the others
AddMessage_Prepend(role, text, now) ==
  /\ recorder' = [recorder EXCEPT
                    !.turns = <<[role |-> role, text |-> text, timestamp |-> now]>> \o @]
  /\ last_call' = [n |-> last_call.n + 1, op |-> "add_message",
                   args |-> [role |-> role, text |-> text]]
  /\ UNCHANGED <<conversation, local, agent>>
  /\ UNCHANGED adapterVars
  /\ UNCHANGED clientVars

\* "if value: self.<field> = value" with every field written even when value is falsy
SetIfGiven_Always(rec, field, value) ==
  [rec EXCEPT ![field] = value]

\* "if value: self.<field> = value"
SetIfGiven(rec, field, value) ==
  IF Truthy(value) THEN [rec EXCEPT ![field] = value] ELSE rec

\* ConversationRecorder.add_user_message (role "user") and add_agent_message (role
\* "agent"); now is what datetime.now().isoformat() gives
AddMessage(role, text, now) ==
  /\ recorder' = [recorder EXCEPT
                    !.turns = Append(@, [role |-> role, text |-> text, timestamp |-> now])]
  /\ last_call' = [n |-> last_call.n + 1, op |-> "add_message",
                   args |-> [role |-> role, text |-> text]]
  /\ UNCHANGED <<conversation, local, agent>>
  /\ UNCHANGED adapterVars
  /\ UNCHANGED clientVars

\* ConversationRecorder.set_patient_info
SetPatientInfo(patient_name, phone_number, birth_date, reason) ==
  /\ recorder' = SetIfGiven(SetIfGiven(SetIfGiven(SetIfGiven(recorder,
                    "patient_name", patient_name),
                    "phone_number", phone_number),
                    "birth_date", birth_date),
                    "reason", reason)
  /\ last_call' = [n |-> last_call.n + 1, op |-> "set_patient_info",
                   args |-> [patient_name |-> patient_name, phone_number |-> phone_number,
                             birth_date |-> birth_date, reason |-> reason]]
  /\ UNCHANGED <<conversation, local, agent>>
  /\ UNCHANGED adapterVars
  /\ UNCHANGED clientVars

\* ConversationRecorder.set_appointment_info
SetAppointmentInfo(appointment_date, appointment_time) ==
  /\ recorder' = SetIfGiven(SetIfGiven(recorder,
                    "appointment_date", appointment_date),
                    "appointment_time", appointment_time)
  /\ last_call' = [n |-> last_call.n + 1, op |-> "set_appointment_info",
                   args |-> [appointment_date |-> appointment_date,
                             appointment_time |-> appointment_time]]
  /\ UNCHANGED <<conversation, local, agent>>
  /\ UNCHANGED adapterVars
  /\ UNCHANGED clientVars

\* the list "lines" of get_full_transcript: "[<timestamp[:19]>] <ROLE>: <text>" for each
\* turn, in the order of self.turns; Dec(timestamp) stands for the ISO text
TranscriptLines(rec) ==
  [n \in 1..Len(rec.turns) |->
     LET turn == rec.turns[n]
         stamp == Dec(turn.timestamp)
     IN  <<"[">> \o SubSeq(stamp, 1, Min(19, Len(stamp))) \o <<"]", " ">>
           \o (IF turn.role = "user" THEN <<"U","S","E","R">>
               ELSE <<"A","G","E","N","T">>)
           \o <<":", " ">> \o turn.text]

\* "\n".join(lines)
RECURSIVE JoinLines(_)
JoinLines(lines) ==
  IF Len(lines) = 0 THEN << >>
  ELSE IF Len(lines) = 1 THEN lines[1]
  ELSE lines[1] \o <<"\n">> \o JoinLines(Tail(lines))

\* the three counts of get_summary and get_turn_count: len(self.turns), the turns
\* of role "user", the turns of role "agent"
TurnCounts(rec) ==
  [total |-> Len(rec.turns),
   user |-> Cardinality({n \in 1..Len(rec.turns) : rec.turns[n].role = "user"}),
   agent |-> Cardinality({n \in 1..Len(rec.turns) : rec.turns[n].role = "agent"})]

\* ConversationRecorder.get_summary
GetSummary(rec) ==
  <<"T","u","r","n","s",":"," ">> \o Dec(TurnCounts(rec).total)
    \o <<" ","(","u","s","e","r",":"," ">> \o Dec(TurnCounts(rec).user)
    \o <<",", " ","a","g","e","n","t",":"," ">> \o Dec(TurnCounts(rec).agent)
    \o <<")",","," ","P","a","t","i","e","n","t",":"," ">>
    \o PyStr(PyOr(rec.patient_name, PStr(<<"u","n","k","n","o","w","n">>)))
    \o <<",", " ","A","p","p","o","i","n","t","m","e","n","t",":"," ">>
    \o PyStr(PyOr(rec.appointment_date, PStr(<<"n","o","t"," ","s","e","t">>)))

\* a call of get_turn_count, get_summary or get_full_transcript: it returns and
\* writes nothing
RecorderGet(op) ==
  /\ last_call' = [n |-> last_call.n, op |-> op,
                   returned |->
                     CASE op = "get_turn_count" -> PInt(TurnCounts(recorder).total)
                       [] op = "get_summary" -> PStr(GetSummary(recorder))
                       [] op = "get_full_transcript" ->
                            PStr(JoinLines(TranscriptLines(recorder)))]
  /\ UNCHANGED <<conversation, local, recorder, agent>>
  /\ UNCHANGED adapterVars
  /\ UNCHANGED clientVars

(***************************************************************************)
(* The entrypoint of one call: the scheduling tool handlers, the handlers  *)
(* of the session's events, and the shutdown callbacks.                    *)
(***************************************************************************)

\* the state of entrypoint() once the shutdown callbacks are registered: no tool and no
\* event handler has run, session.start() is yet to be awaited, and the local egress_id
\* has no binding
NewAgent ==
  [tool |-> [name |-> "none"],
   tool_calls |-> 0,
   delivered |-> 0,
   tasks |-> << >>,
   handled |-> << >>,
   phase |-> "session.start",
   egress_id |-> [t |-> "unbound"],
   disconnects |-> 0,
   shutdown |-> FALSE,
   shutdown_calls |-> 0,
   callbacks |-> [c \in {"store_conversation", "persistence.close", "tool_handler.close"} |->
                    "registered"],
   runs |-> [c \in {"store_conversation", "persistence.close", "tool_handler.close"} |-> 0],
   built |-> << >>,
   store |-> [raised |-> NoExc, returned |-> PNone]]

\* the first of the keys that raw_arguments[key] finds missing, as its place in keys; 0
\* when none is missing
MissingKey(raw_arguments, keys) ==
  IF \E n \in 1..Len(keys) : DictGet(raw_arguments, keys[n], InvalidJson) = InvalidJson
  THEN CHOOSE n \in 1..Len(keys) :
         /\ DictGet(raw_arguments, keys[n], InvalidJson) = InvalidJson
         /\ \A m \in 1..(n - 1) : DictGet(raw_arguments, keys[m], InvalidJson) # InvalidJson
  ELSE 0

\* a handler without its clause "except Exception": the exception leaves the handler
ErrorResult_Raises(name, raw_arguments, msg, posted) ==
  [name |-> name, raw_arguments |-> raw_arguments, posted |-> posted, raised |-> TRUE,
   val |-> PNone]

\* what a tool handler returns from its clause "except Exception as e":
\* {"error": str(e)}
ErrorResult(name, raw_arguments, msg, posted) ==
  [name |-> name, raw_arguments |-> raw_arguments, posted |-> posted, raised |-> FALSE,
   val |-> PDict(<< <<ClientText.STR_ERROR, PStr(msg)>> >>)]

\* an availability that is true unless the result says otherwise
AvailableResult_DefaultTrue(result) ==
  PDict(<< <<ClientText.KEY_AVAILABLE,
             DictGet(result, ClientText.KEY_AVAILABLE, PBool(TRUE))>> >>)

\* available = result.get("available", False); return {"available": available}
AvailableResult(result) ==
  PDict(<< <<ClientText.KEY_AVAILABLE,
             DictGet(result, ClientText.KEY_AVAILABLE, PBool(FALSE))>> >>)

\* CheckAvailabilityHandler.__call__ and check_availability_handler of medical_agent.py
CheckAvailabilityHandler(raw_arguments, o) ==
  LET keys == <<ClientText.KEY_START_DATETIME, ClientText.KEY_END_DATETIME>>
      missing == MissingKey(raw_arguments, keys)
      name == "check_availability"
  IN  IF missing # 0
      THEN \* KeyError: str(e) is the repr of the key
           /\ agent' = [agent EXCEPT
                          !.tool = ErrorResult(name, raw_arguments,
                                               PyRepr(PStr(keys[missing])), FALSE),
                          !.tool_calls = @ + 1]
           /\ UNCHANGED <<conversation, local, recorder, last_call>>
           /\ UNCHANGED adapterVars
           /\ UNCHANGED clientVars
      ELSE /\ CheckAvailability(DictGet(raw_arguments, keys[1], PNone).s,
                                DictGet(raw_arguments, keys[2], PNone).s, o)
           /\ LET result == last_result'.val
              IN  agent' = [agent EXCEPT
                     !.tool =
                        IF last_result'.raised
                        THEN [name |-> name, raw_arguments |-> raw_arguments,
                              posted |-> TRUE, raised |-> TRUE, val |-> PNone]
                        ELSE IF result.t = "dict"
                        THEN [name |-> name, raw_arguments |-> raw_arguments,
                              posted |-> TRUE, raised |-> FALSE,
                              val |-> AvailableResult(result)]
                        ELSE \* AttributeError: the result has no get
                             ErrorResult(name, raw_arguments,
                                         <<"'">>
                                         \o (CASE result.t = "none" -> RuntimeText.TYPE_NONE
                                               [] result.t = "str" -> RuntimeText.TYPE_STR
                                               [] result.t = "list" -> RuntimeText.TYPE_LIST
                                               [] result.t = "bool" -> RuntimeText.TYPE_BOOL
                                               [] result.t = "int" -> RuntimeText.TYPE_INT)
                                         \o <<"'">> \o RuntimeText.MSG_NO_ATTRIBUTE_GET,
                                         TRUE),
                     !.tool_calls = @ + 1]
           /\ UNCHANGED <<conversation, local, recorder, last_call>>

\* BookAppointmentHandler.__call__ and book_appointment_handler of medical_agent.py
BookAppointmentHandler(raw_arguments, o) ==
  LET keys == <<ClientText.KEY_START_DATETIME, ClientText.KEY_END_DATETIME,
                ClientText.KEY_SUMMARY>>
      missing == MissingKey(raw_arguments, keys)
      name == "book_appointment"
  IN  IF missing # 0
      THEN /\ agent' = [agent EXCEPT
                          !.tool = ErrorResult(name, raw_arguments,
                                               PyRepr(PStr(keys[missing])), FALSE),
                          !.tool_calls = @ + 1]
           /\ UNCHANGED <<conversation, local, recorder, last_call>>
           /\ UNCHANGED adapterVars
           /\ UNCHANGED clientVars
      ELSE /\ BookAppointment(DictGet(raw_arguments, keys[1], PNone).s,
                              DictGet(raw_arguments, keys[2], PNone).s,
                              DictGet(raw_arguments, keys[3], PNone).s, o)
           /\ agent' = [agent EXCEPT
                          !.tool = [name |-> name, raw_arguments |-> raw_arguments,
                                    posted |-> TRUE, raised |-> last_result'.raised,
                                    val |-> last_result'.val],
                          !.tool_calls = @ + 1]
           /\ UNCHANGED <<conversation, local, recorder, last_call>>

\* LogAppointmentHandler.__call__ and log_appointment_handler of medical_agent.py: the
\* two setters of the recorder run first, then the arguments of the webhook call are
\* read, then the call is made
LogAppointmentHandler(raw_arguments, o) ==
  LET keys == <<ClientText.KEY_EVENT, ClientText.KEY_DATE, ClientText.KEY_START_TIME,
                ClientText.KEY_END_TIME, ClientText.KEY_PATIENT_NAME,
                ClientText.KEY_PHONE_NUMBER, ClientText.KEY_REASON>>
      missing == MissingKey(raw_arguments, keys)
      name == "log_appointment_details"
      get(key) == DictGet(raw_arguments, key, PNone)
      birth_date == get(ClientText.KEY_BIRTH_DATE)
      patient == SetIfGiven(SetIfGiven(SetIfGiven(SetIfGiven(recorder,
                    "patient_name", get(ClientText.KEY_PATIENT_NAME)),
                    "phone_number", get(ClientText.KEY_PHONE_NUMBER)),
                    "birth_date", birth_date),
                    "reason", get(ClientText.KEY_REASON))
  IN  /\ recorder' = SetIfGiven(SetIfGiven(patient,
                        "appointment_date", get(ClientText.KEY_DATE)),
                        "appointment_time", get(ClientText.KEY_START_TIME))
      /\ last_call' = [n |-> last_call.n + 2, op |-> "set_appointment_info",
                       args |-> [appointment_date |-> get(ClientText.KEY_DATE),
                                 appointment_time |-> get(ClientText.KEY_START_TIME)]]
      /\ UNCHANGED <<conversation, local>>
      /\ IF missing # 0
         THEN /\ agent' = [agent EXCEPT
                             !.tool = ErrorResult(name, raw_arguments,
                                                  PyRepr(PStr(keys[missing])), FALSE),
                             !.tool_calls = @ + 1]
              /\ UNCHANGED adapterVars
              /\ UNCHANGED clientVars
         ELSE /\ LogAppointmentDetails(
                    [event |-> get(ClientText.KEY_EVENT).s,
                     date |-> get(ClientText.KEY_DATE).s,
                     start_time |-> get(ClientText.KEY_START_TIME).s,
                     end_time |-> get(ClientText.KEY_END_TIME).s,
                     patient_name |-> get(ClientText.KEY_PATIENT_NAME).s,
                     birth_date |-> IF birth_date.t = "str" THEN birth_date.s ELSE birth_date,
                     phone_number |-> get(ClientText.KEY_PHONE_NUMBER).s,
                     reason |-> get(ClientText.KEY_REASON).s], o)
              /\ agent' = [agent EXCEPT
                             !.tool = [name |-> name, raw_arguments |-> raw_arguments,
                                       posted |-> TRUE, raised |-> last_result'.raised,
                                       val |-> last_result'.val],
                             !.tool_calls = @ + 1]

\* extract_user_text(event): an object is [t |-> "obj", attrs |-> its attributes]
ExtractUserText(event) ==
  LET has(o, a) == o.t = "obj" /\ a \in DOMAIN o.attrs
      truthy(v) == v.t = "obj" \/ Truthy(v)
  IN  IF has(event, "text") /\ truthy(event.attrs.text) THEN event.attrs.text
      ELSE IF has(event, "transcript") /\ truthy(event.attrs.transcript)
      THEN event.attrs.transcript
      ELSE IF /\ has(event, "alternatives")
              /\ truthy(event.attrs.alternatives)
              /\ has(event.attrs.alternatives.items[1], "text")
      THEN event.attrs.alternatives.items[1].attrs.text
      ELSE PNone

\* an extract_agent_text that does not look at the role of the item
ExtractAgentText_AnyRole(item) ==
  LET has(o, a) == o.t = "obj" /\ a \in DOMAIN o.attrs
      truthy(v) == v.t = "obj" \/ Truthy(v)
  IN  IF has(item, "text") /\ truthy(item.attrs.text) THEN item.attrs.text
      ELSE PNone

\* extract_agent_text(item)
ExtractAgentText(item) ==
  LET has(o, a) == o.t = "obj" /\ a \in DOMAIN o.attrs
      truthy(v) == v.t = "obj" \/ Truthy(v)
  IN  IF ~has(item, "role") \/ item.attrs.role # PStr(<<"a","s","s","i","s","t","a","n","t">>)
      THEN PNone
      ELSE IF has(item, "text") /\ truthy(item.attrs.text) THEN item.attrs.text
      ELSE IF has(item, "content") /\ truthy(item.attrs.content)
      THEN LET content == item.attrs.content
           IN  IF content.t = "str" THEN content
               ELSE IF content.t = "list" /\ content.items[1].t = "str"
               THEN content.items[1]
               ELSE IF content.t = "list" /\ has(content.items[1], "text")
               THEN content.items[1].attrs.text
               ELSE IF has(content, "text") THEN content.attrs.text
               ELSE PNone
      ELSE PNone

\* UserTranscriptionHandler.__call__ and on_user_transcribed of medical_agent.py: the
\* callback only creates the task handle_speech, which the event loop runs later
UserTranscribed(event) ==
  /\ agent' = [agent EXCEPT
                 !.delivered = @ + 1,
                 !.tasks = Append(@, [coro |-> "handle_speech", event |-> event,
                                      seq |-> agent.delivered + 1])]
  /\ UNCHANGED <<conversation, local, recorder, last_call>>
  /\ UNCHANGED adapterVars
  /\ UNCHANGED clientVars

\* the event loop runs the oldest task it holds, a handle_speech:
\* "text = extract_user_text(event); if text: self.recorder.add_user_message(text)"
HandleSpeech ==
  /\ Len(agent.tasks) > 0
  /\ Head(agent.tasks).coro = "handle_speech"
  /\ LET task == Head(agent.tasks)
         text == ExtractUserText(task.event)
         now == Len(agent.handled) + 1
     IN  /\ agent' = [agent EXCEPT
                        !.tasks = Tail(@),
                        !.handled = Append(@, [kind |-> "user", event |-> task.event,
                                               seq |-> task.seq, text |-> text])]
         /\ IF Truthy(text)
            THEN /\ recorder' = [recorder EXCEPT
                                   !.turns = Append(@, [role |-> "user", text |-> text.s,
                                                        timestamp |-> now])]
                 /\ last_call' = [n |-> last_call.n + 1, op |-> "add_message",
                                  args |-> [role |-> "user", text |-> text.s]]
            ELSE UNCHANGED <<recorder, last_call>>
  /\ UNCHANGED <<conversation, local>>
  /\ UNCHANGED adapterVars
  /\ UNCHANGED clientVars

\* AgentResponseHandler.__call__ and on_conversation_item of medical_agent.py: the
\* callback extracts and records before it returns
ConversationItemAdded(event) ==
  LET text == IF "item" \in DOMAIN event.attrs THEN ExtractAgentText(event.attrs.item)
              ELSE PNone
      now == Len(agent.handled) + 1
  IN  /\ agent' = [agent EXCEPT
                     !.delivered = @ + 1,
                     !.handled = Append(@, [kind |-> "item", event |-> event,
                                            seq |-> agent.delivered + 1, text |-> text])]
      /\ IF Truthy(text)
         THEN /\ recorder' = [recorder EXCEPT
                                !.turns = Append(@, [role |-> "agent", text |-> text.s,
                                                     timestamp |-> now])]
              /\ last_call' = [n |-> last_call.n + 1, op |-> "add_message",
                               args |-> [role |-> "agent", text |-> text.s]]
         ELSE UNCHANGED <<recorder, last_call>>
      /\ UNCHANGED <<conversation, local>>
      /\ UNCHANGED adapterVars
      /\ UNCHANGED clientVars

\* a ctx.shutdown() that starts the shutdown callbacks each time it is called
RequestShutdown_Again(a) ==
  [a EXCEPT !.shutdown = TRUE, !.shutdown_calls = @ + 1,
            !.callbacks = [c \in DOMAIN a.callbacks |-> "ready"]]

\* the agent after ctx.shutdown(): the job's shutdown is requested once, later requests
\* change nothing, and each registered callback is then started once as a task
RequestShutdown(a) ==
  IF a.shutdown THEN [a EXCEPT !.shutdown_calls = @ + 1]
  ELSE [a EXCEPT !.shutdown = TRUE, !.shutdown_calls = @ + 1,
                 !.callbacks = [c \in DOMAIN a.callbacks |-> "ready"]]

\* entrypoint() after the registration of the callbacks: "await session.start(...)",
\* "await ctx.connect()", then "egress_id = None" and the start of the recording, which
\* gives an id or leaves None, then the registration of on_participant_disconnected
EntrypointStep(recording_id) ==
  /\ agent.phase # "running"
  /\ agent' = [agent EXCEPT
                 !.phase = CASE @ = "session.start" -> "ctx.connect"
                             [] @ = "ctx.connect" -> "egress"
                             [] @ = "egress" -> "running",
                 !.egress_id = IF agent.phase = "egress" THEN recording_id ELSE @]
  /\ UNCHANGED <<conversation, local, recorder, last_call>>
  /\ UNCHANGED adapterVars
  /\ UNCHANGED clientVars

\* the job is shut down by the framework: the room was closed, the worker stops, or
\* entrypoint() failed
JobShutdown ==
  /\ agent' = RequestShutdown(agent)
  /\ UNCHANGED <<conversation, local, recorder, last_call>>
  /\ UNCHANGED adapterVars
  /\ UNCHANGED clientVars

\* on_participant_disconnected: the callback creates the task handle_user_hangup
ParticipantDisconnected ==
  /\ agent.phase = "running"
  /\ agent' = [agent EXCEPT
                 !.disconnects = @ + 1,
                 !.tasks = Append(@, [coro |-> "handle_user_hangup"])]
  /\ UNCHANGED <<conversation, local, recorder, last_call>>
  /\ UNCHANGED adapterVars
  /\ UNCHANGED clientVars

\* the event loop runs the oldest task it holds, a handle_user_hangup: the recording is
\* stopped and ctx.shutdown(reason="User disconnected") is called
HandleUserHangup ==
  /\ Len(agent.tasks) > 0
  /\ Head(agent.tasks).coro = "handle_user_hangup"
  /\ agent' = RequestShutdown([agent EXCEPT !.tasks = Tail(@)])
  /\ UNCHANGED <<conversation, local, recorder, last_call>>
  /\ UNCHANGED adapterVars
  /\ UNCHANGED clientVars

\* the shutdown callback store_conversation up to its await: the summary and the
\* transcript are read, "if egress_id:" is evaluated, which is a NameError while the
\* enclosing entrypoint() has not bound egress_id, the ConversationData is built from
\* the recorder, and persistence.store_conversation(conversation_data, None) sends its
\* request
StoreCallbackBegin(recording_url) ==
  /\ agent.callbacks["store_conversation"] = "ready"
  /\ recording_url # PNone => (agent.egress_id.t = "str" /\ Truthy(agent.egress_id))
  /\ IF agent.egress_id.t = "unbound"
     THEN /\ agent' = [agent EXCEPT
                         !.callbacks["store_conversation"] = "raised",
                         !.runs["store_conversation"] = @ + 1,
                         !.store.raised = Exc("NameError", RuntimeText.MSG_FREE_VARIABLE)]
          /\ UNCHANGED <<conversation, persist, calls, last_request, last_result>>
     ELSE LET conversation_data ==
                [f \in DataFieldSet |->
                   CASE f = "voice_agent_name" -> PStr(recorder.voice_agent_name)
                     [] f = "transcript" -> PStr(JoinLines(TranscriptLines(recorder)))
                     [] f = "conversation_date" -> PStr(SampleText.STR_DATE)
                     [] f \in RecorderFields -> recorder[f]
                     [] f = "audio_recording_url" -> recording_url
                     [] OTHER -> PNone]
          IN  /\ agent' = [agent EXCEPT
                             !.callbacks["store_conversation"] = "posting",
                             !.runs["store_conversation"] = @ + 1,
                             !.built = Append(@, conversation_data)]
              /\ conversation' = conversation_data
              /\ persist' = [EnsureSession(persist) EXCEPT !.calls = @ + 1, !.posts = @ + 1]
              /\ last_request' = PersistRequest(persist, conversation_data, PNone)
              /\ calls' = calls + 1
              /\ UNCHANGED last_result
  /\ UNCHANGED <<local, recorder, last_call, sched>>
  /\ UNCHANGED adapterVars

\* the rest of store_conversation: the request is answered or fails, and the callback
\* logs the result and returns. A session that was closed while the request was in
\* flight has dropped the connection, so the request fails.
StoreCallbackEnd(o) ==
  /\ agent.callbacks["store_conversation"] = "posting"
  /\ persist.session = "closed" =>
       o = ExcOutcome(Exc("aiohttp.ClientConnectionError", SampleText.MSG_CONNECTION_FAILED))
  /\ last_result' = [outcome |-> o, raised |-> PersistResult(o).raised,
                     val |-> PersistResult(o).val]
  /\ agent' = [agent EXCEPT
                 !.callbacks["store_conversation"] =
                    IF PersistResult(o).raised THEN "raised" ELSE "done",
                 !.store.returned = PersistResult(o).val]
  /\ UNCHANGED <<conversation, local, recorder, last_call, sched, persist, calls,
                 last_request>>
  /\ UNCHANGED adapterVars

\* the shutdown callbacks persistence.close and tool_handler.close. The callbacks are
\* started in the order of their registration, so a close does not start before the
\* callback registered before it has started.
CloseCallback(c) ==
  /\ agent.callbacks[c] = "ready"
  /\ IF c = "persistence.close"
     THEN /\ agent.callbacks["store_conversation"] # "ready"
          /\ persist' = CloseSession(persist)
          /\ UNCHANGED sched
     ELSE /\ agent.callbacks["persistence.close"] # "ready"
          /\ sched' = CloseSession(sched)
          /\ UNCHANGED persist
  /\ agent' = [agent EXCEPT
                 !.callbacks[c] = "done",
                 !.runs[c] = @ + 1]
  /\ UNCHANGED <<conversation, local, recorder, last_call, calls, last_request,
                 last_result>>
  /\ UNCHANGED adapterVars

(***************************************************************************)
(* The inputs the environment draws from.                                  *)
(***************************************************************************)

\* how many chat() invocations an adapter sees with overlapping streams
MaxTurns == 2

\* a text of n characters in which no two chunks of 50 are equal
LongText(n) == [k \in 1..n |-> LowerCase[((k * (1 + (k \div chunk_size))) % 26) + 1]]

Body(raw, parsed) == [raw |-> raw, parsed |-> parsed]

\* bodies that are JSON documents: the text, and what json.loads makes of it
JsonBodies ==
  {
   \* {"output": "X"}
     Body(<<"{","\"","o","u","t","p","u","t","\"",":"," ","\"","X","\"","}">>,
          PDict(<< <<AgentText.KEY_OUTPUT, PStr(<<"X">>)>> >>)),
   \* {"response": "X"}
     Body(<<"{","\"","r","e","s","p","o","n","s","e","\"",":"," ","\"","X","\"","}">>,
          PDict(<< <<AgentText.KEY_RESPONSE, PStr(<<"X">>)>> >>)),
   \* {"text": "X"}
     Body(<<"{","\"","t","e","x","t","\"",":"," ","\"","X","\"","}">>,
          PDict(<< <<AgentText.KEY_TEXT, PStr(<<"X">>)>> >>)),
   \* {"message": "X"}
     Body(<<"{","\"","m","e","s","s","a","g","e","\"",":"," ","\"","X","\"","}">>,
          PDict(<< <<AgentText.KEY_MESSAGE, PStr(<<"X">>)>> >>)),
   \* {"response": "Y", "output": "X"}
     Body(<<"{","\"","r","e","s","p","o","n","s","e","\"",":"," ","\"","Y","\"",","," ",
            "\"","o","u","t","p","u","t","\"",":"," ","\"","X","\"","}">>,
          PDict(<< <<AgentText.KEY_RESPONSE, PStr(<<"Y">>)>>, <<AgentText.KEY_OUTPUT, PStr(<<"X">>)>> >>)),
   \* {"message": "Y", "text": "X"}
     Body(<<"{","\"","m","e","s","s","a","g","e","\"",":"," ","\"","Y","\"",","," ","\"",
            "t","e","x","t","\"",":"," ","\"","X","\"","}">>,
          PDict(<< <<AgentText.KEY_MESSAGE, PStr(<<"Y">>)>>, <<AgentText.KEY_TEXT, PStr(<<"X">>)>> >>)),
   \* {"output": "", "response": "Y"}
     Body(<<"{","\"","o","u","t","p","u","t","\"",":"," ","\"","\"",","," ","\"","r","e",
            "s","p","o","n","s","e","\"",":"," ","\"","Y","\"","}">>,
          PDict(<< <<AgentText.KEY_OUTPUT, PStr(<< >>)>>, <<AgentText.KEY_RESPONSE, PStr(<<"Y">>)>> >>)),
   \* {"output": null, "message": "Y"}
     Body(<<"{","\"","o","u","t","p","u","t","\"",":"," ","n","u","l","l",","," ","\"","m",
            "e","s","s","a","g","e","\"",":"," ","\"","Y","\"","}">>,
          PDict(<< <<AgentText.KEY_OUTPUT, PNone>>, <<AgentText.KEY_MESSAGE, PStr(<<"Y">>)>> >>)),
   \* {"output": 0, "text": "Y"}
     Body(<<"{","\"","o","u","t","p","u","t","\"",":"," ","0",","," ","\"","t","e","x","t",
            "\"",":"," ","\"","Y","\"","}">>,
          PDict(<< <<AgentText.KEY_OUTPUT, PInt(0)>>, <<AgentText.KEY_TEXT, PStr(<<"Y">>)>> >>)),
   \* {"output": {}, "response": "Y"}
     Body(<<"{","\"","o","u","t","p","u","t","\"",":"," ","{","}",","," ","\"","r","e","s",
            "p","o","n","s","e","\"",":"," ","\"","Y","\"","}">>,
          PDict(<< <<AgentText.KEY_OUTPUT, PDict(<< >>)>>, <<AgentText.KEY_RESPONSE, PStr(<<"Y">>)>> >>)),
   \* {"output": {"text": "Y"}}
     Body(<<"{","\"","o","u","t","p","u","t","\"",":"," ","{","\"","t","e","x","t","\"",":",
            " ","\"","Y","\"","}","}">>,
          PDict(<< <<AgentText.KEY_OUTPUT, PDict(<< <<AgentText.KEY_TEXT, PStr(<<"Y">>)>> >>)>> >>)),
   \* {"output": {"text": "Y", "metadata": {"metadata": 1}}}
     Body(<<"{","\"","o","u","t","p","u","t","\"",":"," ","{","\"","t","e","x","t","\"",":",
            " ","\"","Y","\"",","," ","\"","m","e","t","a","d","a","t","a","\"",":"," ","{",
            "\"","m","e","t","a","d","a","t","a","\"",":"," ","1","}","}","}">>,
          PDict(<< <<AgentText.KEY_OUTPUT, PDict(<< <<AgentText.KEY_TEXT, PStr(<<"Y">>)>>, <<SampleText.KEY_OTHER, PDict(<< <<SampleText.KEY_OTHER, PInt(1)>> >>)>> >>)>> >>)),
   \* {"output": {"text": null}}
     Body(<<"{","\"","o","u","t","p","u","t","\"",":"," ","{","\"","t","e","x","t","\"",":",
            " ","n","u","l","l","}","}">>,
          PDict(<< <<AgentText.KEY_OUTPUT, PDict(<< <<AgentText.KEY_TEXT, PNone>> >>)>> >>)),
   \* {"output": {"text": ""}}
     Body(<<"{","\"","o","u","t","p","u","t","\"",":"," ","{","\"","t","e","x","t","\"",":",
            " ","\"","\"","}","}">>,
          PDict(<< <<AgentText.KEY_OUTPUT, PDict(<< <<AgentText.KEY_TEXT, PStr(<< >>)>> >>)>> >>)),
   \* {"output": {"metadata": "Z"}, "response": "Y"}
     Body(<<"{","\"","o","u","t","p","u","t","\"",":"," ","{","\"","m","e","t","a","d","a",
            "t","a","\"",":"," ","\"","Z","\"","}",","," ","\"","r","e","s","p","o","n","s",
            "e","\"",":"," ","\"","Y","\"","}">>,
          PDict(<< <<AgentText.KEY_OUTPUT, PDict(<< <<SampleText.KEY_OTHER, PStr(<<"Z">>)>> >>)>>, <<AgentText.KEY_RESPONSE, PStr(<<"Y">>)>> >>)),
   \* {"output": {"text": 5}}
     Body(<<"{","\"","o","u","t","p","u","t","\"",":"," ","{","\"","t","e","x","t","\"",":",
            " ","5","}","}">>,
          PDict(<< <<AgentText.KEY_OUTPUT, PDict(<< <<AgentText.KEY_TEXT, PInt(5)>> >>)>> >>)),
   \* {"output": {"text": {"metadata": 1}}}
     Body(<<"{","\"","o","u","t","p","u","t","\"",":"," ","{","\"","t","e","x","t","\"",":",
            " ","{","\"","m","e","t","a","d","a","t","a","\"",":"," ","1","}","}","}">>,
          PDict(<< <<AgentText.KEY_OUTPUT, PDict(<< <<AgentText.KEY_TEXT, PDict(<< <<SampleText.KEY_OTHER, PInt(1)>> >>)>> >>)>> >>)),
   \* {"output": 5}
     Body(<<"{","\"","o","u","t","p","u","t","\"",":"," ","5","}">>,
          PDict(<< <<AgentText.KEY_OUTPUT, PInt(5)>> >>)),
   \* {"output": ["X"]}
     Body(<<"{","\"","o","u","t","p","u","t","\"",":"," ","[","\"","X","\"","]","}">>,
          PDict(<< <<AgentText.KEY_OUTPUT, PList(<< PStr(<<"X">>) >>)>> >>)),
   \* {"output": true}
     Body(<<"{","\"","o","u","t","p","u","t","\"",":"," ","t","r","u","e","}">>,
          PDict(<< <<AgentText.KEY_OUTPUT, PBool(TRUE)>> >>)),
   \* {}
     Body(<<"{","}">>,
          PDict(<< >>)),
   \* {"metadata": "Z"}
     Body(<<"{","\"","m","e","t","a","d","a","t","a","\"",":"," ","\"","Z","\"","}">>,
          PDict(<< <<SampleText.KEY_OTHER, PStr(<<"Z">>)>> >>)),
   \* {"response": null, "text": null}
     Body(<<"{","\"","r","e","s","p","o","n","s","e","\"",":"," ","n","u","l","l",","," ",
            "\"","t","e","x","t","\"",":"," ","n","u","l","l","}">>,
          PDict(<< <<AgentText.KEY_RESPONSE, PNone>>, <<AgentText.KEY_TEXT, PNone>> >>)),
   \* "X"
     Body(<<"\"","X","\"">>,
          PStr(<<"X">>)),
   \* ""
     Body(<<"\"","\"">>,
          PStr(<< >>)),
   \* null
     Body(<<"n","u","l","l">>,
          PNone),
   \* 0
     Body(<<"0">>,
          PInt(0)),
   \* 5
     Body(<<"5">>,
          PInt(5)),
   \* false
     Body(<<"f","a","l","s","e">>,
          PBool(FALSE)),
   \* true
     Body(<<"t","r","u","e">>,
          PBool(TRUE)),
   \* []
     Body(<<"[","]">>,
          PList(<< >>)),
   \* [1, "X"]
     Body(<<"[","1",","," ","\"","X","\"","]">>,
          PList(<< PInt(1), PStr(<<"X">>) >>)),
   \* {"output": "LongText 49"}
     Body(<<"{","\"","o","u","t","p","u","t","\"",":"," ","\"">> \o LongText(49) \o <<"\"","}">>,
          PDict(<< <<AgentText.KEY_OUTPUT, PStr(LongText(49))>> >>)),
   \* {"output": "LongText 50"}
     Body(<<"{","\"","o","u","t","p","u","t","\"",":"," ","\"">> \o LongText(50) \o <<"\"","}">>,
          PDict(<< <<AgentText.KEY_OUTPUT, PStr(LongText(50))>> >>)),
   \* {"output": "LongText 51"}
     Body(<<"{","\"","o","u","t","p","u","t","\"",":"," ","\"">> \o LongText(51) \o <<"\"","}">>,
          PDict(<< <<AgentText.KEY_OUTPUT, PStr(LongText(51))>> >>)),
   \* {"output": "LongText 100"}
     Body(<<"{","\"","o","u","t","p","u","t","\"",":"," ","\"">> \o LongText(100) \o <<"\"","}">>,
          PDict(<< <<AgentText.KEY_OUTPUT, PStr(LongText(100))>> >>)),
   \* {"output": "LongText 101"}
     Body(<<"{","\"","o","u","t","p","u","t","\"",":"," ","\"">> \o LongText(101) \o <<"\"","}">>,
          PDict(<< <<AgentText.KEY_OUTPUT, PStr(LongText(101))>> >>))}

\* exceptions session.post() raises
TransportExcs ==
  {Exc("asyncio.TimeoutError", SampleText.MSG_EMPTY),
   Exc("TimeoutError", SampleText.MSG_EMPTY),
   Exc("aiohttp.ServerTimeoutError", RuntimeText.MSG_CONNECTION_TIMEOUT),
   Exc("aiohttp.ClientConnectionError", RuntimeText.MSG_CONNECTION_TIMEOUT),
   Exc("aiohttp.ClientConnectionError", SampleText.MSG_CONNECTION_FAILED),
   Exc("aiohttp.ClientError", SampleText.MSG_CONNECTION_FAILED)}

\* every response: a status, a content-type header, a body that is a JSON document or
\* is not one, and the exception reading the body raises, if any
Responses ==
  LET Statuses == {200, 500}
      ContentTypes == {AgentText.STR_APPLICATION_JSON, PersistText.CT_JSON_UTF8,
                       SampleText.CT_TEXT_PLAIN, SampleText.MSG_EMPTY}
      TextBodies == {Body(SampleText.RAW_NOT_JSON, InvalidJson),
                     Body(SampleText.RAW_TRUNCATED, InvalidJson),
                     Body(LongText(101), InvalidJson),
                     Body(SampleText.MSG_EMPTY, InvalidJson)}
      ReadExcs == {Exc("asyncio.TimeoutError", SampleText.MSG_EMPTY),
                   Exc("UnicodeDecodeError", RuntimeText.MSG_INVALID_BYTE)}
  IN  {Response(st, ct, b.raw, b.parsed, e) :
         st \in Statuses, ct \in ContentTypes, b \in JsonBodies \cup TextBodies,
         e \in {NoExc} \cup ReadExcs}

\* every upstream outcome of one POST
Outcomes ==
  {ExcOutcome(e) : e \in TransportExcs} \cup {HttpOutcome(r) : r \in Responses}

\* the outcomes drawn when several streams overlap
FewOutcomes ==
  {HttpOutcome(Response(500, SampleText.CT_TEXT_PLAIN, SampleText.RAW_NOT_JSON, InvalidJson, NoExc)),
   HttpOutcome(Response(200, AgentText.STR_APPLICATION_JSON, SampleText.RAW_OUTPUT_X,
                        PDict(<< <<AgentText.KEY_OUTPUT, PStr(<<"X">>)>> >>), NoExc))}

FewConnectExcs == {Exc("aiohttp.ClientConnectionError", SampleText.MSG_CONNECTION_FAILED)}

SessionIds == {Uuid4(<<"session_id", 1>>), Uuid4(<<"session_id", 2>>)}

USER_TEXT == <<"H","i">>

\* message histories: one with a latest user message, one whose messages cannot be read
ChatContexts ==
  {ChatCtx("ctx1", "items",
           <<Msg("system", CList(<<PartStr(<<"S">>)>>)),
             Msg("user", CList(<<PartStr(USER_TEXT)>>))>>),
   ChatCtx("ctx2", "raises", << >>)}

\* histories for the extraction of the user text: every shape of content chat() looks at
HistoryContexts ==
  {ChatCtx("h1", "items",
           <<Msg("user", CList(<<PartStr(<<"A">>)>>)),
             Msg("assistant", CList(<<PartStr(<<"R">>)>>)),
             Msg("user", CList(<<PartStr(<<"B">>)>>)),
             Msg("assistant", CList(<<PartStr(<<"R">>)>>))>>),
   ChatCtx("h2", "messages",
           <<Msg("system", CList(<<PartStr(<<"S">>)>>)),
             Msg("user", CList(<<PartStr(<<"A">>), PartStr(<<"B">>)>>)),
             Msg("system", CList(<<PartStr(<<"S">>)>>))>>),
   ChatCtx("h3", "iter", <<Msg("user", CStr(<<"A">>))>>),
   ChatCtx("h4", "items", <<Msg("user", CList(<<PartObj(PStr(<<"A">>)), PartStr(<<"B">>)>>))>>),
   ChatCtx("h5", "items", <<Msg("user", CObj(PStr(<<"A">>)))>>),
   ChatCtx("h6", "items", <<Msg("user", CList(<<PartOther, PartStr(<<"A">>)>>))>>),
   ChatCtx("h7", "items",
           <<Msg("user", CList(<<PartStr(<<"A">>)>>)),
             Msg("user", CList(<<PartStr(<< >>)>>))>>),
   ChatCtx("h8", "items",
           <<Msg("user", CList(<<PartStr(<< >>)>>)),
             Msg("user", CList(<<PartStr(<<"A">>)>>))>>),
   ChatCtx("h9", "items",
           <<Msg("user", CList(<<PartStr(<<"A">>)>>)),
             Msg("assistant", CList(<<PartStr(<<"R">>)>>)),
             Msg("user", CList(<<PartOther>>))>>),
   ChatCtx("h10", "items", << >>),
   ChatCtx("h11", "items",
           <<Msg("system", CList(<<PartStr(<<"S">>)>>)),
             Msg("assistant", CList(<<PartStr(<<"R">>)>>))>>),
   ChatCtx("h12", "items", <<Msg("user", CNone)>>),
   ChatCtx("h13", "items", <<Msg("user", CList(<< >>))>>),
   ChatCtx("h14", "items", <<Msg("user", CList(<<PartStr(<< >>), PartStr(<<"B">>)>>))>>),
   ChatCtx("h15", "none", << >>),
   ChatCtx("h16", "raises", << >>)}

ContextIds == {c.id : c \in ChatContexts \cup HistoryContexts}

\* how many calls the scheduling and persistence clients are given
MaxCalls == 2

\* largest number of calls and close()s of the two clients taken alone
MaxOps == 3

\* the tokens a component is configured with: a token, the empty string, None
AuthTokens == {PStr(SampleText.TOKEN_A), PStr(<< >>), PNone}

\* what the n8n workflow answers a client, and the failures of the POST
ClientOutcomes ==
  {HttpOutcome(Response(200, AgentText.STR_APPLICATION_JSON, SampleText.RAW_AVAILABLE_TRUE,
                        PDict(<< <<SampleText.KEY_AVAILABLE, PBool(TRUE)>> >>), NoExc)),
   HttpOutcome(Response(500, SampleText.CT_TEXT_PLAIN, SampleText.STR_SERVER_ERROR, InvalidJson, NoExc)),
   ExcOutcome(Exc("asyncio.TimeoutError", SampleText.MSG_EMPTY))}

\* the details log_appointment_details is given
Appointments ==
  {[event |-> SampleText.STR_SUMMARY, date |-> SampleText.STR_DATE, start_time |-> SampleText.STR_START, end_time |-> SampleText.STR_END,
    patient_name |-> SampleText.STR_AGENT, birth_date |-> SampleText.STR_DATE, phone_number |-> <<"0","6">>,
    reason |-> SampleText.STR_SUMMARY]}

\* a ConversationData: the required fields, two optional ones, the defaults of the rest
Conversations ==
  {[f \in DataFieldSet |->
      CASE f = "voice_agent_name" -> PStr(SampleText.STR_AGENT)
        [] f = "transcript" -> PStr(SampleText.STR_TRANSCRIPT)
        [] f = "conversation_date" -> PStr(SampleText.STR_DATE)
        [] f = "patient_name" -> PStr(SampleText.STR_AGENT)
        [] f = "total_turns" -> PInt(3)
        [] f = "test_mode" -> PBool(FALSE)
        [] OTHER -> PNone]}

\* the audio store_conversation is given: none, no bytes, some bytes
Audios == {PNone, [t |-> "bytes", s |-> << >>], [t |-> "bytes", s |-> SampleText.AUDIO_BYTES]}

\* every kind of answer and failure a client meets: bodies response.json() accepts,
\* bodies it rejects, statuses other than 200, failures of the POST and of the read
AllClientOutcomes ==
  ClientOutcomes \cup
  {HttpOutcome(Response(200, PersistText.CT_JSON_UTF8, <<"\"", "X", "\"">>, PStr(<<"X">>), NoExc)),
   HttpOutcome(Response(200, AgentText.STR_APPLICATION_JSON, SampleText.MSG_EMPTY, InvalidJson, NoExc)),
   HttpOutcome(Response(200, AgentText.STR_APPLICATION_JSON, SampleText.RAW_NOT_JSON, InvalidJson, NoExc)),
   HttpOutcome(Response(200, SampleText.CT_TEXT_PLAIN, SampleText.RAW_AVAILABLE_TRUE,
                        PDict(<< <<SampleText.KEY_AVAILABLE, PBool(TRUE)>> >>), NoExc)),
   HttpOutcome(Response(200, AgentText.STR_APPLICATION_JSON, SampleText.RAW_AVAILABLE_TRUE,
                        PDict(<< <<SampleText.KEY_AVAILABLE, PBool(TRUE)>> >>),
                        Exc("asyncio.TimeoutError", SampleText.MSG_EMPTY))),
   HttpOutcome(Response(404, SampleText.CT_TEXT_PLAIN, SampleText.MSG_EMPTY, InvalidJson, NoExc)),
   HttpOutcome(Response(500, SampleText.CT_TEXT_PLAIN, SampleText.STR_SERVER_ERROR, InvalidJson,
                        Exc("UnicodeDecodeError", RuntimeText.MSG_INVALID_BYTE))),
   ExcOutcome(Exc("aiohttp.ServerTimeoutError", RuntimeText.MSG_CONNECTION_TIMEOUT)),
   ExcOutcome(Exc("aiohttp.ClientConnectionError", SampleText.MSG_CONNECTION_FAILED))}


\* the ConversationData given to both persistence implementations: the required fields,
\* and a text, a count and a flag that are each unset, falsy, or (but the flag) truthy;
\* the text has accented characters, each written "U+" and its code point
StoreData ==
  {[f \in DataFieldSet |->
      CASE f = "voice_agent_name" -> PStr(SampleText.STR_AGENT)
        [] f = "transcript" -> PStr(SampleText.STR_TRANSCRIPT)
        [] f = "conversation_date" -> PStr(SampleText.STR_DATE)
        [] f = "patient_name" -> name
        [] f = "total_turns" -> turns
        [] f = "test_mode" -> mode
        [] OTHER -> PNone] :
     name \in {PNone, PStr(<< >>), PStr(SampleText.NAME_ACCENTED)},
     turns \in {PNone, PInt(0), PInt(3)},
     mode \in {PNone, PBool(FALSE)}}

\* what datetime.now() gives, to the second
Timestamps == {1, 2}

\* largest number of calls of the recorder
MaxRecorderCalls == 2

\* what a setter of the recorder is given for one argument: nothing, the empty string,
\* one of two values
RecorderValues == {PNone, PStr(<< >>), PStr(<<"A">>), PStr(<<"B">>)}

\* largest number of calls of the tool handlers
MaxToolCalls == 2

\* the raw_arguments the model calls a tool with: every key of the three tools, and the
\* same without the optional birth_date, without a required key, with an empty name
RawArguments ==
  LET full == << <<ClientText.KEY_START_DATETIME, PStr(SampleText.STR_START)>>,
                 <<ClientText.KEY_END_DATETIME, PStr(SampleText.STR_END)>>,
                 <<ClientText.KEY_SUMMARY, PStr(SampleText.STR_SUMMARY)>>,
                 <<ClientText.KEY_EVENT, PStr(SampleText.STR_SUMMARY)>>,
                 <<ClientText.KEY_DATE, PStr(SampleText.STR_DATE)>>,
                 <<ClientText.KEY_START_TIME, PStr(SampleText.STR_START)>>,
                 <<ClientText.KEY_END_TIME, PStr(SampleText.STR_END)>>,
                 <<ClientText.KEY_PATIENT_NAME, PStr(SampleText.STR_AGENT)>>,
                 <<ClientText.KEY_BIRTH_DATE, PStr(SampleText.STR_DATE)>>,
                 <<ClientText.KEY_PHONE_NUMBER, PStr(<<"0","6">>)>>,
                 <<ClientText.KEY_REASON, PStr(SampleText.STR_SUMMARY)>> >>
      without(key) == SelectSeq(full, LAMBDA item : item[1] # key)
  IN  {PDict(full),
       PDict(without(ClientText.KEY_BIRTH_DATE)),
       PDict(without(ClientText.KEY_END_DATETIME)),
       PDict(without(ClientText.KEY_REASON)),
       PDict([n \in 1..Len(full) |->
                IF full[n][1] = ClientText.KEY_PATIENT_NAME
                THEN <<full[n][1], PStr(<< >>)>> ELSE full[n]])}

\* what the scheduling webhook answers a tool: an availability, a mapping without one,
\* a body that is no mapping, a body json() rejects, a status other than 200, failures
ToolOutcomes ==
  ClientOutcomes \cup
  {HttpOutcome(Response(200, AgentText.STR_APPLICATION_JSON, SampleText.RAW_AVAILABLE_FALSE,
                        PDict(<< <<ClientText.KEY_AVAILABLE, PBool(FALSE)>> >>), NoExc)),
   HttpOutcome(Response(200, AgentText.STR_APPLICATION_JSON, <<"{","}">>, PDict(<< >>), NoExc)),
   HttpOutcome(Response(200, PersistText.CT_JSON_UTF8, <<"\"", "X", "\"">>, PStr(<<"X">>), NoExc)),
   HttpOutcome(Response(200, SampleText.CT_TEXT_PLAIN, SampleText.RAW_AVAILABLE_TRUE,
                        PDict(<< <<ClientText.KEY_AVAILABLE, PBool(TRUE)>> >>), NoExc)),
   ExcOutcome(Exc("aiohttp.ClientConnectionError", SampleText.MSG_CONNECTION_FAILED))}

\* largest number of events delivered to the two handlers of the session
MaxEvents == 3

\* the events the model delivers. user: a transcription with a text, with an empty text
\* and a transcript, with one alternative that has a text, with one alternative whose
\* text is empty, with nothing. item: an assistant item with a text, with a list of
\* parts, with an empty content, a user item with a text, an event without item.
SessionEvents ==
  LET obj(attrs) == [t |-> "obj", attrs |-> attrs]
      assistant == PStr(<<"a","s","s","i","s","t","a","n","t">>)
  IN  [user |->
         {obj([type |-> "user_input_transcribed", text |-> PStr(USER_TEXT)]),
          obj([type |-> "user_input_transcribed", text |-> PStr(<< >>),
               transcript |-> PStr(USER_TEXT)]),
          obj([type |-> "user_input_transcribed",
               alternatives |-> PList(<<obj([text |-> PStr(USER_TEXT)])>>)]),
          obj([type |-> "user_input_transcribed",
               alternatives |-> PList(<<obj([text |-> PStr(<< >>)])>>)]),
          obj([type |-> "user_input_transcribed"])},
       item |->
         {obj([type |-> "conversation_item_added",
               item |-> obj([role |-> assistant, text |-> PStr(SampleText.STR_TRANSCRIPT)])]),
          obj([type |-> "conversation_item_added",
               item |-> obj([role |-> assistant,
                             content |-> PList(<<obj([text |-> PStr(SampleText.STR_SUMMARY)])>>)])]),
          obj([type |-> "conversation_item_added",
               item |-> obj([role |-> assistant, content |-> PStr(<< >>)])]),
          obj([type |-> "conversation_item_added",
               item |-> obj([role |-> PStr(<<"u","s","e","r">>),
                             text |-> PStr(USER_TEXT)])]),
          obj([type |-> "conversation_item_added"])}]

\* largest number of participant_disconnected events
MaxDisconnects == 2

(***************************************************************************)
(* Specifications.                                                         *)
(***************************************************************************)

\* N8nWebhookLLM.__init__
Init ==
  /\ session_id \in SessionIds
  /\ webhook_token \in {PStr(SampleText.TOKEN_A), PStr(<< >>)}
  /\ turn_counter = 0
  /\ cursors = [c \in ContextIds |-> NoMessage]
  /\ streams = << >>
  /\ wire = << >>
  /\ sched = NewSched(SampleText.URL_PLAIN, PNone)
  /\ persist = NewPersist(SampleText.URL_PLAIN, PNone, PERSISTENCE_TIMEOUT)
  /\ calls = 0
  /\ last_request = NoRequest
  /\ last_result = NoResult
  /\ conversation \in Conversations
  /\ local = NewLocal(SampleText.DIR_LOGS)
  /\ recorder = NewRecorder
  /\ last_call = NoCall
  /\ agent = NewAgent

\* one adapter, up to MaxTurns chat() invocations whose streams may overlap
Next ==
  \/ \E c \in ChatContexts : turn_counter < MaxTurns /\ Chat(c)
  \/ \E s \in StreamIds : StartFetch(s)
  \/ \E s \in StreamIds : SendRequest(s)
  \/ \E s \in StreamIds : \E e \in FewConnectExcs : ConnectFail(s, e)
  \/ \E s \in StreamIds : \E o \in FewOutcomes : Respond(s, o)
  \/ \E s \in StreamIds : AfterSleep(s)

Spec == Init /\ [][Next]_vars

\* one adapter, one turn, every token and every upstream outcome
InitTurn ==
  /\ session_id = Uuid4(<<"session_id", 1>>)
  /\ webhook_token \in {PStr(SampleText.TOKEN_A), PStr(SampleText.TOKEN_B), PStr(<< >>), PNone}
  /\ turn_counter = 0
  /\ cursors = [c \in ContextIds |-> NoMessage]
  /\ streams = << >>
  /\ wire = << >>
  /\ sched = NewSched(SampleText.URL_PLAIN, PNone)
  /\ persist = NewPersist(SampleText.URL_PLAIN, PNone, PERSISTENCE_TIMEOUT)
  /\ calls = 0
  /\ last_request = NoRequest
  /\ last_result = NoResult
  /\ conversation \in Conversations
  /\ local = NewLocal(SampleText.DIR_LOGS)
  /\ recorder = NewRecorder
  /\ last_call = NoCall
  /\ agent = NewAgent

NextTurn ==
  \/ \E c \in ChatContexts : turn_counter < 1 /\ Chat(c)
  \/ \E s \in StreamIds : StartFetch(s)
  \/ \E s \in StreamIds : SendRequest(s)
  \/ \E s \in StreamIds : \E e \in TransportExcs : ConnectFail(s, e)
  \/ \E s \in StreamIds : \E o \in Outcomes : Respond(s, o)
  \/ \E s \in StreamIds : AfterSleep(s)
  \/ \E s \in StreamIds : Anext(s)

SpecTurn == InitTurn /\ [][NextTurn]_vars

\* the adapter and the two clients, each configured with its own token: one turn of
\* the adapter, up to MaxCalls calls of the clients
InitAuth ==
  /\ session_id = Uuid4(<<"session_id", 1>>)
  /\ webhook_token \in AuthTokens
  /\ turn_counter = 0
  /\ cursors = [c \in ContextIds |-> NoMessage]
  /\ streams = << >>
  /\ wire = << >>
  /\ \E t \in AuthTokens : sched = NewSched(SampleText.URL_SLASH, t)
  /\ \E t \in AuthTokens : persist = NewPersist(SampleText.URL_PLAIN, t, PERSISTENCE_TIMEOUT)
  /\ calls = 0
  /\ last_request = NoRequest
  /\ last_result = NoResult
  /\ conversation \in Conversations
  /\ local = NewLocal(SampleText.DIR_LOGS)
  /\ recorder = NewRecorder
  /\ last_call = NoCall
  /\ agent = NewAgent

NextAuth ==
  \/ \E c \in ChatContexts : turn_counter < 1 /\ Chat(c)
  \/ \E s \in StreamIds : StartFetch(s)
  \/ \E s \in StreamIds : SendRequest(s)
  \/ \E s \in StreamIds : \E e \in FewConnectExcs : ConnectFail(s, e)
  \/ \E s \in StreamIds : \E o \in FewOutcomes : Respond(s, o)
  \/ \E s \in StreamIds : AfterSleep(s)
  \/ \E o \in ClientOutcomes :
        calls < MaxCalls /\ CheckAvailability(SampleText.STR_START, SampleText.STR_END, o) /\ UNCHANGED recordVars
  \/ \E o \in ClientOutcomes :
        calls < MaxCalls /\ BookAppointment(SampleText.STR_START, SampleText.STR_END, SampleText.STR_SUMMARY, o) /\ UNCHANGED recordVars
  \/ \E a \in Appointments : \E o \in ClientOutcomes :
        calls < MaxCalls /\ LogAppointmentDetails(a, o) /\ UNCHANGED recordVars
  \/ \E audio_data \in Audios : \E o \in ClientOutcomes :
        calls < MaxCalls /\ StoreConversation(conversation, audio_data, o)

SpecAuth == InitAuth /\ [][NextAuth]_vars

\* one adapter, one turn, on every shape of history
NextChat ==
  \/ \E c \in HistoryContexts : turn_counter < 1 /\ Chat(c)
  \/ \E s \in StreamIds : StartFetch(s)
  \/ \E s \in StreamIds : SendRequest(s)
  \/ \E s \in StreamIds : \E e \in FewConnectExcs : ConnectFail(s, e)
  \/ \E s \in StreamIds : \E o \in FewOutcomes : Respond(s, o)
  \/ \E s \in StreamIds : AfterSleep(s)

SpecChat == InitTurn /\ [][NextChat]_vars

\* the two clients alone, with or without a token, up to MaxOps calls and close()s
\* in any order, every outcome
InitClients ==
  /\ session_id = Uuid4(<<"session_id", 1>>)
  /\ webhook_token = PNone
  /\ turn_counter = 0
  /\ cursors = [c \in ContextIds |-> NoMessage]
  /\ streams = << >>
  /\ wire = << >>
  /\ \E t \in {PStr(SampleText.TOKEN_A), PNone} :
        /\ sched = NewSched(SampleText.URL_SLASH, t)
        /\ persist = NewPersist(SampleText.URL_PLAIN, t, PERSISTENCE_TIMEOUT)
  /\ calls = 0
  /\ last_request = NoRequest
  /\ last_result = NoResult
  /\ conversation \in Conversations
  /\ local = NewLocal(SampleText.DIR_LOGS)
  /\ recorder = NewRecorder
  /\ last_call = NoCall
  /\ agent = NewAgent

NextClients ==
  \/ \E o \in AllClientOutcomes :
        calls < MaxOps /\ CheckAvailability(SampleText.STR_START, SampleText.STR_END, o) /\ UNCHANGED recordVars
  \/ \E o \in AllClientOutcomes :
        calls < MaxOps /\ BookAppointment(SampleText.STR_START, SampleText.STR_END, SampleText.STR_SUMMARY, o) /\ UNCHANGED recordVars
  \/ \E a \in Appointments : \E o \in AllClientOutcomes :
        calls < MaxOps /\ LogAppointmentDetails(a, o) /\ UNCHANGED recordVars
  \/ calls < MaxOps /\ SchedClose
  \/ \E audio_data \in Audios : \E o \in AllClientOutcomes :
        calls < MaxOps /\ StoreConversation(conversation, audio_data, o)
  \/ calls < MaxOps /\ PersistClose

SpecClients == InitClients /\ [][NextClients]_vars


\* the two persistence implementations given one ConversationData, each up to MaxOps
\* times, with and without audio
InitStore ==
  /\ session_id = Uuid4(<<"session_id", 1>>)
  /\ webhook_token = PNone
  /\ turn_counter = 0
  /\ cursors = [c \in ContextIds |-> NoMessage]
  /\ streams = << >>
  /\ wire = << >>
  /\ sched = NewSched(SampleText.URL_PLAIN, PNone)
  /\ persist = NewPersist(SampleText.URL_PLAIN, PNone, PERSISTENCE_TIMEOUT)
  /\ calls = 0
  /\ last_request = NoRequest
  /\ last_result = NoResult
  /\ conversation \in StoreData
  /\ local = NewLocal(SampleText.DIR_LOGS)
  /\ recorder = NewRecorder
  /\ last_call = NoCall
  /\ agent = NewAgent

NextStore ==
  \/ \E audio_data \in Audios : \E o \in ClientOutcomes :
        persist.calls < MaxOps /\ StoreConversation(conversation, audio_data, o)
  \/ \E audio_data \in Audios : \E timestamp \in Timestamps :
        \E failure \in {"none", "audio", "json"} :
          local.calls < MaxOps
            /\ LocalStoreConversation(conversation, audio_data, timestamp, failure)

SpecStore == InitStore /\ [][NextStore]_vars

\* one recorder given up to MaxRecorderCalls calls
InitRecorder ==
  /\ session_id = Uuid4(<<"session_id", 1>>)
  /\ webhook_token = PNone
  /\ turn_counter = 0
  /\ cursors = [c \in ContextIds |-> NoMessage]
  /\ streams = << >>
  /\ wire = << >>
  /\ sched = NewSched(SampleText.URL_PLAIN, PNone)
  /\ persist = NewPersist(SampleText.URL_PLAIN, PNone, PERSISTENCE_TIMEOUT)
  /\ calls = 0
  /\ last_request = NoRequest
  /\ last_result = NoResult
  /\ conversation \in Conversations
  /\ local = NewLocal(SampleText.DIR_LOGS)
  /\ recorder = NewRecorder
  /\ last_call = NoCall
  /\ agent = NewAgent

NextRecorder ==
  \/ \E role \in {"user", "agent"} : \E now \in Timestamps :
        last_call.n < MaxRecorderCalls /\ AddMessage(role, USER_TEXT, now)
  \/ \E a \in {a \in [1..4 -> RecorderValues] :
                   Cardinality({n \in 1..4 : a[n] # PNone}) <= 2} :
        last_call.n < MaxRecorderCalls /\ SetPatientInfo(a[1], a[2], a[3], a[4])
  \/ \E d \in RecorderValues : \E t \in RecorderValues :
        last_call.n < MaxRecorderCalls /\ SetAppointmentInfo(d, t)
  \/ \E op \in {"get_turn_count", "get_summary", "get_full_transcript"} :
        RecorderGet(op)

SpecRecorder == InitRecorder /\ [][NextRecorder]_vars


\* the three tool handlers of one call, each given any of the arguments and meeting any
\* of the answers of the webhook, up to MaxToolCalls times in all
NextTools ==
  \/ \E raw_arguments \in RawArguments : \E o \in ToolOutcomes :
        agent.tool_calls < MaxToolCalls /\ CheckAvailabilityHandler(raw_arguments, o)
  \/ \E raw_arguments \in RawArguments : \E o \in ToolOutcomes :
        agent.tool_calls < MaxToolCalls /\ BookAppointmentHandler(raw_arguments, o)
  \/ \E raw_arguments \in RawArguments : \E o \in ToolOutcomes :
        agent.tool_calls < MaxToolCalls /\ LogAppointmentHandler(raw_arguments, o)

SpecTools == InitClients /\ [][NextTools]_vars


\* the events of one session: up to MaxEvents of them are delivered to the two
\* handlers, and the event loop runs the tasks they created when it gets to them
NextEvents ==
  \/ \E event \in SessionEvents.user :
        agent.delivered < MaxEvents /\ UserTranscribed(event)
  \/ \E event \in SessionEvents.item :
        agent.delivered < MaxEvents /\ ConversationItemAdded(event)
  \/ HandleSpeech

SpecEvents == InitRecorder /\ [][NextEvents]_vars


\* one call from the registration of the shutdown callbacks on: entrypoint() goes on,
\* the log tool may run once, the participant disconnects up to MaxDisconnects times,
\* the framework or a hangup requests the shutdown, and the callbacks run as tasks
NextShutdown ==
  \/ \E recording_id \in {PNone, PStr(SampleText.EGRESS_ID)} : EntrypointStep(recording_id)
  \/ \E raw_arguments \in RawArguments : \E o \in ClientOutcomes :
        /\ agent.tool_calls = 0
        /\ agent.phase = "running"
        /\ ~agent.shutdown
        /\ LogAppointmentHandler(raw_arguments, o)
  \/ agent.shutdown_calls = 0 /\ JobShutdown
  \/ agent.disconnects < MaxDisconnects /\ ParticipantDisconnected
  \/ HandleUserHangup
  \/ \E recording_url \in {PNone, PStr(SampleText.URL_RECORDING)} :
        StoreCallbackBegin(recording_url)
  \/ \E o \in AllClientOutcomes : StoreCallbackEnd(o)
  \/ \E c \in {"persistence.close", "tool_handler.close"} : CloseCallback(c)

SpecShutdown == InitRecorder /\ [][NextShutdown]_vars


\* one adapter, up to MaxTurns chat() invocations whose streams overlap, each with its
\* consumer; the answers are a failure to connect, a status 500 and a text of two chunks
NextStreams ==
  \/ \E c \in {c \in ChatContexts : c.access = "items"} : turn_counter < MaxTurns /\ Chat(c)
  \/ \E s \in StreamIds : StartFetch(s)
  \/ \E s \in StreamIds : SendRequest(s)
  \/ \E s \in StreamIds : \E e \in FewConnectExcs : ConnectFail(s, e)
  \/ \E s \in StreamIds :
       \E o \in {o \in FewOutcomes : o.resp.status = 500} \cup
                {HttpOutcome(Response(200, AgentText.STR_APPLICATION_JSON,
                                      <<"{","\"","o","u","t","p","u","t","\"",":"," ","\"">>
                                        \o LongText(51) \o <<"\"","}">>,
                                      PDict(<< <<AgentText.KEY_OUTPUT, PStr(LongText(51))>> >>),
                                      NoExc))} :
          Respond(s, o)
  \/ \E s \in StreamIds : AfterSleep(s)
  \/ \E s \in StreamIds : Anext(s)

SpecStreams == InitRecorder /\ [][NextStreams]_vars

(***************************************************************************)
(* Properties.                                                             *)
(***************************************************************************)

\* the chunks stream s has sent so far, in the order sent
Emitted(s) == streams[s].received \o streams[s].event_ch

\* the contents of a sequence of chunks, concatenated
RECURSIVE Concat(_)
Concat(chunks) ==
  IF Len(chunks) = 0 THEN << >>
  ELSE Head(chunks).delta.content \o Concat(Tail(chunks))

\* the text of stream s is resolved
Resolved(s) == streams[s].pc \in {"sleeping", "done"}

\* ceil(n / 50)
CeilDiv50(n) == CHOOSE c \in 0..n : c * 50 >= n /\ (c = 0 \/ (c - 1) * 50 < n)

\* C1: the k-th chat() of an adapter builds the payload with turn_id "t_k", the counter
\* counts every chat() whether or not the extraction of the user text succeeded, and
\* every payload carries the session_id generated at construction.
C1_TurnIdSequence ==
  /\ turn_counter = Len(streams)
  /\ \A k \in StreamIds :
       /\ streams[k].payload.turn_id = <<"t", "_">> \o Dec(k)
       /\ streams[k].payload.session_id = session_id
       /\ session_id \in SessionIds

\* C1 witness: MaxTurns invocations were made, the first on a history whose messages
\* cannot be read, a later one on a readable history.
C1_Witness ==
  /\ Len(streams) = MaxTurns
  /\ streams[1].chat_ctx = "ctx2"
  /\ streams[1].payload.input.text = PStr(<< >>)
  /\ streams[MaxTurns].chat_ctx = "ctx1"
  /\ streams[MaxTurns].payload.input.text = PStr(USER_TEXT)

\* the number k of a turn id "t_k"
TurnNumber(turn_id) ==
  IF \E k \in 0..(Len(streams) + 1) : <<"t", "_">> \o Dec(k) = turn_id
  THEN CHOOSE k \in 0..(Len(streams) + 1) : <<"t", "_">> \o Dec(k) = turn_id
  ELSE 0

\* C2 (as stated): the turn_ids of the POST requests, in the order the requests are
\* written to the network, are strictly increasing, also when streams overlap.
C2_WireOrderIncreasing ==
  \A a, b \in 1..Len(wire) :
     a < b => TurnNumber(wire[a].json.turn_id) < TurnNumber(wire[b].json.turn_id)

\* C2 (amended): turn_ids are strictly increasing in the order of the chat()
\* invocations, every request on the wire carries the payload of its own stream, and
\* no two requests carry the same turn_id; the order on the wire is not fixed.
C2_TurnIdsDistinctIncreasingByChat ==
  /\ \A a, b \in StreamIds :
       a < b => TurnNumber(streams[a].payload.turn_id) < TurnNumber(streams[b].payload.turn_id)
  /\ \A a \in 1..Len(wire) : wire[a].json = streams[wire[a].stream].payload
  /\ \A a, b \in 1..Len(wire) : a # b => wire[a].json.turn_id # wire[b].json.turn_id

\* C2 witness: two overlapping streams whose requests reached the wire in the order
\* opposite to their chat() invocations.
C2_Witness ==
  /\ Len(wire) >= 2
  /\ wire[1].stream > wire[2].stream

\* what a call of the recorder supplies for a field: the argument of that name, None
\* when the call has no such argument
C20_Given(call, f) ==
  IF call.op \in {"set_patient_info", "set_appointment_info"} /\ f \in DOMAIN call.args
  THEN call.args[f]
  ELSE PNone

\* a non-empty string
C20_NonEmpty(v) == v.t = "str" /\ v.s # << >>

\* C20: over every sequence of calls of the recorder, a setter gives each of the six
\* optional fields the value of its own argument when that is non-empty and leaves it
\* as it was when the argument is omitted or empty; a field that is not None never
\* becomes None or empty again; the setters leave the list of turns unchanged.
C20_SetOnlyByOwnNonEmptyArgument ==
  [][last_call'.n > last_call.n =>
       /\ \A f \in RecorderFields :
             /\ C20_NonEmpty(C20_Given(last_call', f)) =>
                   recorder'[f] = C20_Given(last_call', f)
             /\ ~C20_NonEmpty(C20_Given(last_call', f)) => recorder'[f] = recorder[f]
             /\ recorder[f] # PNone => C20_NonEmpty(recorder'[f])
       /\ last_call'.op # "add_message" =>
             /\ recorder'.turns = recorder.turns
             /\ recorder'.voice_agent_name = recorder.voice_agent_name]_vars

\* C20 witness: set_patient_info(patient_name="A"), then set_patient_info with the
\* phone number "B" and an empty patient name: both fields are set.
C20_Witness ==
  /\ last_call.n = 2
  /\ last_call.op = "set_patient_info"
  /\ last_call.args.patient_name = PStr(<< >>)
  /\ last_call.args.phone_number = PStr(<<"B">>)
  /\ recorder.patient_name = PStr(<<"A">>)
  /\ recorder.phone_number = PStr(<<"B">>)
  /\ recorder.reason = PNone

\* the lines of a text: the pieces between its newline characters
RECURSIVE C21_Split(_)
C21_Split(s) ==
  IF \A i \in 1..Len(s) : s[i] # "\n" THEN <<s>>
  ELSE LET i == CHOOSE i \in 1..Len(s) :
                   s[i] = "\n" /\ \A j \in 1..(i - 1) : s[j] # "\n"
       IN  <<SubSeq(s, 1, i - 1)>> \o C21_Split(SubSeq(s, i + 1, Len(s)))

\* the transcript line of a turn: "[<timestamp>] USER: <text>" or "[...] AGENT: <text>"
C21_Line(turn) ==
  <<"[">> \o Dec(turn.timestamp) \o <<"]", " ">>
    \o (IF turn.role = "user" THEN <<"U","S","E","R">> ELSE <<"A","G","E","N","T">>)
    \o <<":", " ">> \o turn.text

\* what a getter of the recorder must return for the turns it has
C21_Returned(call, turns) ==
  LET users == Cardinality({n \in 1..Len(turns) : turns[n].role = "user"})
      head == <<"T","u","r","n","s",":"," ">> \o Dec(Len(turns))
                \o <<" ","(","u","s","e","r",":"," ">> \o Dec(users)
                \o <<",", " ","a","g","e","n","t",":"," ">> \o Dec(Len(turns) - users)
                \o <<")">>
  IN  /\ call.op = "get_turn_count" => call.returned = PInt(Len(turns))
      /\ call.op = "get_summary" =>
            /\ Len(call.returned.s) >= Len(head)
            /\ SubSeq(call.returned.s, 1, Len(head)) = head
      /\ call.op = "get_full_transcript" =>
            IF Len(turns) = 0 THEN call.returned = PStr(<< >>)
            ELSE /\ Len(C21_Split(call.returned.s)) = Len(turns)
                 /\ \A n \in 1..Len(turns) :
                       C21_Split(call.returned.s)[n] = C21_Line(turns[n])

\* C21: the turns of the recorder only grow, by one turn at the end for each
\* add_user_message or add_agent_message and by nothing else; get_turn_count is the
\* number of turns, the user and agent counts of get_summary add up to it,
\* get_full_transcript is one line per turn in the order of insertion (the empty
\* string with no turn), and no getter changes the recorder.
C21_TurnsAppendOnlyInOrder ==
  /\ [](/\ Len(recorder.turns) <= last_call.n
        /\ last_call.op \in {"get_turn_count", "get_summary", "get_full_transcript"} =>
              C21_Returned(last_call, recorder.turns))
  /\ [][/\ (last_call'.n > last_call.n /\ last_call'.op = "add_message") =>
             /\ Len(recorder'.turns) = Len(recorder.turns) + 1
             /\ SubSeq(recorder'.turns, 1, Len(recorder.turns)) = recorder.turns
             /\ recorder'.turns[Len(recorder'.turns)].role = last_call'.args.role
             /\ recorder'.turns[Len(recorder'.turns)].text = last_call'.args.text
        /\ ~(last_call'.n > last_call.n /\ last_call'.op = "add_message") =>
             recorder'.turns = recorder.turns
        /\ last_call'.n = last_call.n => recorder' = recorder]_vars

\* C21 witness: after a user turn and then an agent turn, get_full_transcript
\* returned two lines, the user's first.
C21_Witness ==
  /\ last_call.op = "get_full_transcript"
  /\ Len(recorder.turns) = 2
  /\ recorder.turns[1].role = "user"
  /\ recorder.turns[2].role = "agent"
  /\ Len(C21_Split(last_call.returned.s)) = 2
  /\ C21_Split(last_call.returned.s)[1] = C21_Line(recorder.turns[1])

(***************************************************************************)
(* C23, C24: the scheduling tool handlers.                                 *)
(***************************************************************************)

\* the latest handler call sent a request and the webhook answered it with status 200
\* and a body that response.json() reads as a mapping whose available entry is true
C23_AnsweredAvailable ==
  /\ agent.tool.posted
  /\ last_result.outcome.kind = "http"
  /\ last_result.outcome.resp.status = 200
  /\ ResponseJson(last_result.outcome.resp).exc = NoExc
  /\ last_result.outcome.resp.parsed.t = "dict"
  /\ DictGet(last_result.outcome.resp.parsed, ClientText.KEY_AVAILABLE, PNone) = PBool(TRUE)

\* the latest handler call returned a mapping whose available entry is truthy
C23_ReportsAvailable ==
  /\ ~agent.tool.raised
  /\ agent.tool.val.t = "dict"
  /\ Truthy(DictGet(agent.tool.val, ClientText.KEY_AVAILABLE, PNone))

\* C23: the check-availability tool fails closed. Its result reports the slot as
\* available only when the webhook answered status 200 with a mapping whose available
\* entry is true; after a timeout, a status other than 200, a failure of the transport
\* or a missing argument the result does not report the slot as available.
C23_FailsClosed ==
  agent.tool.name = "check_availability" =>
    /\ C23_ReportsAvailable => C23_AnsweredAvailable
    /\ (agent.tool.posted /\ (last_result.outcome.kind = "exc"
                              \/ last_result.outcome.resp.status # 200))
         => ~C23_ReportsAvailable
    /\ ~agent.tool.posted => ~C23_ReportsAvailable

\* the check-availability handler has met a timeout of the webhook call and answered
\* {"available": False}
C23_Witness ==
  /\ agent.tool.name = "check_availability"
  /\ agent.tool.posted
  /\ last_result.outcome = ExcOutcome(Exc("asyncio.TimeoutError", SampleText.MSG_EMPTY))
  /\ agent.tool.val = PDict(<< <<ClientText.KEY_AVAILABLE, PBool(FALSE)>> >>)

\* the latest handler call returned a mapping whose error entry is a text
C24_ErrorMapping ==
  /\ agent.tool.val.t = "dict"
  /\ DictGet(agent.tool.val, ClientText.STR_ERROR, PNone).t = "str"

\* the webhook call of the latest handler call failed: the POST or the read raised, the
\* status was not 200, or response.json() rejected the body
C24_WebhookFailed ==
  /\ agent.tool.posted
  /\ \/ last_result.outcome.kind = "exc"
     \/ last_result.outcome.resp.status # 200
     \/ ResponseJson(last_result.outcome.resp).exc # NoExc

\* the recorder field a key of raw_arguments is stored in by the log handler
C24_FieldOf ==
  << <<ClientText.KEY_PATIENT_NAME, "patient_name">>,
     <<ClientText.KEY_PHONE_NUMBER, "phone_number">>,
     <<ClientText.KEY_BIRTH_DATE, "birth_date">>,
     <<ClientText.KEY_REASON, "reason">>,
     <<ClientText.KEY_DATE, "appointment_date">>,
     <<ClientText.KEY_START_TIME, "appointment_time">> >>

\* the recorder holds every non-empty patient and appointment argument of the latest
\* handler call
C24_RecorderUpdated ==
  \A n \in 1..Len(C24_FieldOf) :
    LET value == DictGet(agent.tool.raw_arguments, C24_FieldOf[n][1], PNone)
    IN  Truthy(value) => recorder[C24_FieldOf[n][2]] = value

C27_HasTurn(h) ==
  /\ h.text.t = "str"
  /\ Len(h.text.s) > 0
  /\ h.kind = "item" =>
       /\ "item" \in DOMAIN h.event.attrs
       /\ "role" \in DOMAIN h.event.attrs.item.attrs
       /\ h.event.attrs.item.attrs.role = PStr(<<"a","s","s","i","s","t","a","n","t">>)

\* C27: after any sequence of transcription and conversation-item events every turn of
\* the recorder has a non-empty text, and the turns are, in the order the handlers ran,
\* one user turn for each transcription that had a text and one agent turn for each
\* assistant item that had a text: an event without a text, or an item of another
\* role, has added no turn.
C27_TurnsOnlyFromText ==
  LET recorded == SelectSeq(agent.handled, C27_HasTurn)
  IN  /\ \A n \in 1..Len(recorder.turns) : Len(recorder.turns[n].text) > 0
      /\ Len(recorder.turns) = Len(recorded)
      /\ \A n \in 1..Len(recorded) :
           /\ recorder.turns[n].role = (IF recorded[n].kind = "user" THEN "user" ELSE "agent")
           /\ recorder.turns[n].text = recorded[n].text.s

\* three events were handled: two gave a user turn and an agent turn, and the third, an
\* item of role user with a text, gave none
C27_Witness ==
  /\ Len(agent.handled) = 3
  /\ Len(recorder.turns) = 2
  /\ \E n \in 1..2 : recorder.turns[n].role = "user"
  /\ \E n \in 1..2 : recorder.turns[n].role = "agent"
  /\ \E n \in 1..3 :
       /\ agent.handled[n].kind = "item"
       /\ "item" \in DOMAIN agent.handled[n].event.attrs
       /\ agent.handled[n].event.attrs.item.attrs.role = PStr(<<"u","s","e","r">>)

\* C28: the turns of the recorder are in the order in which their events were
\* delivered.
C28_TurnsInDeliveryOrder ==
  LET recorded == SelectSeq(agent.handled, C27_HasTurn)
  IN  \A i \in 1..Len(recorded) : \A j \in 1..Len(recorded) :
        i < j => recorded[i].seq < recorded[j].seq

(***************************************************************************)
(* C22, C25, C29: the shutdown callbacks of the medical agent.             *)
(***************************************************************************)

C25_ClosedOnceAfterStore ==
  /\ \A c \in {"persistence.close", "tool_handler.close"} :
       /\ agent.runs[c] <= 1
       /\ agent.callbacks[c] = "done" => agent.runs[c] = 1
  /\ ~(/\ agent.callbacks["store_conversation"] = "posting"
       /\ agent.callbacks["persistence.close"] = "done")

\* C29: whenever the shutdown is triggered, the store_conversation callback builds a
\* ConversationData, hands it to persistence and does not raise.
C29_StoreCallbackCompletes ==
  agent.callbacks["store_conversation"] \in {"done", "raised"} =>
    /\ agent.store.raised = NoExc
    /\ Len(agent.built) = 1
    /\ persist.posts = 1

(***************************************************************************)
(* C26: accented characters in the stored payloads.                        *)
(***************************************************************************)

\* the characters outside ASCII of the model's texts
C26_Accented == {"U+00E9", "U+00E0"}

\* the bytes written for every text of a serialized mapping hold no \u escape, and one
\* two-byte UTF-8 sequence for each accented character of the text
C26_LiteralUtf8(term) ==
  \A f \in DOMAIN term.dumps :
    term.dumps[f].t = "str" =>
      LET s == term.dumps[f].s
          bytes == JsonStringBytes(s, term.ensure_ascii)
      IN  /\ \A i \in 1..(Len(bytes) - 1) : ~(bytes[i] = "\\" /\ bytes[i + 1] = "u")
          /\ Cardinality({i \in 1..Len(bytes) : bytes[i] = "0xC3"})
               = Cardinality({i \in 1..Len(s) : s[i] \in C26_Accented})

\* the JSON files the local implementation has written
C26_JsonFiles == {p \in DOMAIN local.files : "dumps" \in DOMAIN local.files[p]}

\* C26: storing a ConversationData whose texts have accented characters gives a JSON
\* body, a multipart metadata field and a local JSON file that are encoded as UTF-8
\* and in which every accented character is its UTF-8 bytes, never a \uXXXX escape.
C26_AccentsAsUtf8Bytes ==
  /\ last_request.client = "persistence" =>
       IF last_request.body.kind = "json"
       THEN /\ C26_LiteralUtf8(last_request.body.value)
            /\ last_request.body.encoding = "utf-8"
       ELSE /\ C26_LiteralUtf8(last_request.body.fields[1].value)
            /\ last_request.body.fields[1].content_type = PersistText.CT_JSON_UTF8
  /\ \A p \in C26_JsonFiles :
       /\ C26_LiteralUtf8(local.files[p])
       /\ local.files[p].encoding = "utf-8"

\* a record whose patient name has accented characters was sent with audio, as the
\* metadata field of a multipart body, and written to a local file
C26_Witness ==
  /\ last_request.client = "persistence"
  /\ last_request.body.kind = "multipart"
  /\ "patient_name" \in DOMAIN last_request.body.fields[1].value.dumps
  /\ last_request.body.fields[1].value.dumps.patient_name = PStr(SampleText.NAME_ACCENTED)
  /\ \E p \in C26_JsonFiles :
       /\ "patient_name" \in DOMAIN local.files[p].dumps
       /\ local.files[p].dumps.patient_name = PStr(SampleText.NAME_ACCENTED)

(***************************************************************************)
(* C30: streams of one adapter in flight at the same time.                 *)
(***************************************************************************)

\* the chunks of the text stream s resolved from its own outcome, in order
C30_OwnChunks(s) ==
  LET text == ResolveText(streams[s].outcome).text
  IN  [n \in 1..CeilDiv50(Len(text)) |-> Chunk(s, text, (n - 1) * chunk_size)]

\* C30: under every interleaving of the streams of one adapter, what the consumer of a
\* stream has received is a prefix of the chunks of that stream's own resolved text, in
\* order and each once, and the whole of them when its iteration has ended: a chunk
\* never reaches another stream's consumer, and the outcome of another stream, failure
\* or fallback, changes nothing of it.
C30_EachConsumerGetsOwnChunks ==
  \A s \in StreamIds :
     /\ streams[s].received # << >> =>
          /\ streams[s].outcome.kind # "none"
          /\ Len(streams[s].received) <= Len(C30_OwnChunks(s))
          /\ streams[s].received = SubSeq(C30_OwnChunks(s), 1, Len(streams[s].received))
     /\ streams[s].consumer = "ended" => streams[s].received = C30_OwnChunks(s)

\* two streams in flight together: the second, answered with a failure, has delivered
\* its fallback and ended, while the first, answered with a text of two chunks, has
\* delivered one chunk and still holds the other
C30_Witness ==
  /\ Len(streams) = 2
  /\ streams[1].pc = "sleeping"
  /\ Len(streams[1].received) = 1
  /\ Len(C30_OwnChunks(1)) = 2
  /\ streams[2].consumer = "ended"
  /\ streams[2].outcome.kind = "http"
  /\ streams[2].outcome.resp.status = 500
  /\ streams[2].received = C30_OwnChunks(2)
  /\ streams[2].received # << >>

\* C3: whatever the upstream outcome, the stream never raises to its consumer and the
\* resolved text is never empty, so at least one chunk is sent before the channel is
\* closed.
C3_NeverRaisesNeverEmpty ==
  \A s \in StreamIds :
     /\ streams[s].pc # "raised"
     /\ streams[s].consumer # "error"
     /\ Resolved(s) => Len(streams[s].text) > 0 /\ Len(Emitted(s)) >= 1
     /\ streams[s].closes > 0 => Len(Emitted(s)) >= 1

\* C3 witness: a stream whose POST timed out was driven to a clean end by its consumer.
C3_Witness ==
  \E s \in StreamIds :
     /\ streams[s].outcome = ExcOutcome(Exc("asyncio.TimeoutError", SampleText.MSG_EMPTY))
     /\ streams[s].consumer = "ended"
     /\ Len(streams[s].received) >= 1

\* the text the claim C4 gives for a parsed JSON body, before the fallback for empty
C4_KeyOrder == <<AgentText.KEY_OUTPUT, AgentText.KEY_RESPONSE, AgentText.KEY_TEXT, AgentText.KEY_MESSAGE>>

C4_HasTruthy(data, k) ==
  \E n \in 1..Len(data.items) :
     data.items[n][1] = C4_KeyOrder[k] /\ Truthy(data.items[n][2])

C4_ValueOf(data, k) ==
  data.items[CHOOSE n \in 1..Len(data.items) : data.items[n][1] = C4_KeyOrder[k]][2]

C4_DictText(v) ==
  IF v.t = "dict"
  THEN IF \E n \in 1..Len(v.items) : v.items[n][1] = AgentText.KEY_TEXT /\ Truthy(v.items[n][2])
       THEN PyStr(v.items[CHOOSE n \in 1..Len(v.items) : v.items[n][1] = AgentText.KEY_TEXT][2])
       ELSE << >>
  ELSE PyStr(v)

C4_JsonText(data) ==
  IF data.t = "dict"
  THEN IF \E k \in 1..4 : C4_HasTruthy(data, k)
       THEN LET first == CHOOSE k \in 1..4 :
                            C4_HasTruthy(data, k) /\ \A j \in 1..(k - 1) : ~C4_HasTruthy(data, j)
            IN  C4_DictText(C4_ValueOf(data, first))
       ELSE << >>
  ELSE IF data.t = "str" THEN data.s
  ELSE PyStr(data)

\* the content types of the inputs that are JSON
C4_IsJson(ct) == ct \in {AgentText.STR_APPLICATION_JSON, PersistText.CT_JSON_UTF8}

C4_Expected(r) ==
  IF C4_IsJson(r.ctype) THEN C4_JsonText(r.parsed) ELSE r.raw

\* C4: for HTTP 200 with a JSON body the resolved text is the first truthy value of
\* output, response, text, message (the text entry of a dict value, else empty), a
\* top-level string as it is, any other value stringified; with another content type
\* it is the raw body.  (An empty result is replaced by the fallback of C6.)
C4_ExtractionPriority ==
  \A s \in StreamIds :
     LET o == streams[s].outcome
     IN  ( /\ Resolved(s)
           /\ o.kind = "http"
           /\ o.resp.status = 200
           /\ o.resp.readExc = NoExc
           /\ C4_IsJson(o.resp.ctype) => o.resp.parsed # InvalidJson )
         => /\ C4_Expected(o.resp) # << >> => streams[s].text = C4_Expected(o.resp)
            /\ C4_Expected(o.resp) = << >> => streams[s].text = AgentText.TEXT_NO_RESPONSE

\* C4 witness: the body {"response": "Y", "output": "X"} resolved to "X", and the body
\* {"output": {"text": "Y", ...}} resolved to "Y" (one stream per state: either).
C4_Witness ==
  \E s \in StreamIds :
     /\ streams[s].pc = "done"
     /\ streams[s].outcome.kind = "http"
     /\ streams[s].outcome.resp.status = 200
     /\ streams[s].outcome.resp.ctype = AgentText.STR_APPLICATION_JSON
     /\ streams[s].outcome.resp.readExc = NoExc
     /\ streams[s].outcome.resp.parsed =
          PDict(<< <<AgentText.KEY_RESPONSE, PStr(<<"Y">>)>>, <<AgentText.KEY_OUTPUT, PStr(<<"X">>)>> >>)
     /\ streams[s].text = <<"X">>

\* what C5 calls a transport timeout: a timeout class, or an exception whose message
\* names a timeout
C5_IsTimeout(e) ==
  \/ e.cls \in {"asyncio.TimeoutError", "TimeoutError", "aiohttp.ServerTimeoutError"}
  \/ e.msg = RuntimeText.MSG_CONNECTION_TIMEOUT

\* C5 (as stated): every non-200 status resolves to the "trouble" text whatever the
\* body, a transport timeout to the "timed out" text, every other transport exception
\* to the "error" text.
C5_FixedFallbacks ==
  \A s \in StreamIds :
     LET o == streams[s].outcome
     IN  Resolved(s) =>
           /\ (o.kind = "http" /\ o.resp.status # 200) => streams[s].text = AgentText.TEXT_TROUBLE
           /\ (o.kind = "exc" /\ C5_IsTimeout(o.exc)) => streams[s].text = AgentText.TEXT_TIMED_OUT
           /\ (o.kind = "exc" /\ ~C5_IsTimeout(o.exc)) => streams[s].text = AgentText.TEXT_ERROR

\* C5 (amended): a non-200 status whose body is read resolves to the "trouble" text; an
\* exception, raised by the POST or by reading the body of any response, resolves to
\* the "timed out" text when it is a timeout and to the "error" text otherwise.
C5_FallbacksByWhatIsRaised ==
  \A s \in StreamIds :
     LET o == streams[s].outcome
         e == IF o.kind = "exc" THEN o.exc ELSE o.resp.readExc
     IN  Resolved(s) =>
           /\ (o.kind = "http" /\ o.resp.status # 200 /\ e = NoExc)
                => streams[s].text = AgentText.TEXT_TROUBLE
           /\ (e # NoExc /\ C5_IsTimeout(e)) => streams[s].text = AgentText.TEXT_TIMED_OUT
           /\ (e # NoExc /\ ~C5_IsTimeout(e)) => streams[s].text = AgentText.TEXT_ERROR

\* C5 witness: a status 500 whose body could not be decoded was resolved, to the
\* "error" text.
C5_Witness ==
  \E s \in StreamIds :
     /\ streams[s].pc = "done"
     /\ streams[s].outcome.kind = "http"
     /\ streams[s].outcome.resp.status = 500
     /\ streams[s].outcome.resp.readExc = Exc("UnicodeDecodeError", RuntimeText.MSG_INVALID_BYTE)
     /\ streams[s].text = AgentText.TEXT_ERROR

\* the HTTP 200 bodies C6 lists: an empty object, candidate keys all absent or falsy, a
\* dict value without a truthy text, an empty top-level string, an empty plain-text body
C6_IsEmptyCase(r) ==
  IF C4_IsJson(r.ctype)
  THEN /\ r.parsed # InvalidJson
       /\ \/ /\ r.parsed.t = "dict"
             /\ \A k \in 1..4 : ~C4_HasTruthy(r.parsed, k)
          \/ /\ r.parsed.t = "dict"
             /\ \E k \in 1..4 :
                  /\ C4_HasTruthy(r.parsed, k)
                  /\ \A j \in 1..(k - 1) : ~C4_HasTruthy(r.parsed, j)
                  /\ C4_ValueOf(r.parsed, k).t = "dict"
                  /\ ~ \E n \in 1..Len(C4_ValueOf(r.parsed, k).items) :
                         /\ C4_ValueOf(r.parsed, k).items[n][1] = AgentText.KEY_TEXT
                         /\ Truthy(C4_ValueOf(r.parsed, k).items[n][2])
          \/ r.parsed = PStr(<< >>)
  ELSE r.raw = << >>

\* C6: an HTTP 200 response that resolves to an empty text is delivered as the
\* fallback "I couldn't generate a response.", never as an empty stream.
C6_EmptyBecomesFallback ==
  \A s \in StreamIds :
     LET o == streams[s].outcome
     IN  ( /\ streams[s].outcome.kind = "http"
           /\ o.resp.status = 200
           /\ o.resp.readExc = NoExc
           /\ C6_IsEmptyCase(o.resp) )
         => /\ streams[s].pc # "raised"
            /\ streams[s].text = AgentText.TEXT_NO_RESPONSE
            /\ Len(Emitted(s)) >= 1
            /\ streams[s].closes > 0 => Concat(Emitted(s)) = AgentText.TEXT_NO_RESPONSE
            /\ streams[s].consumer = "ended" => Concat(streams[s].received) = AgentText.TEXT_NO_RESPONSE

\* C6 witness: the body {"output": {"text": null}} was delivered as the fallback to a
\* consumer that read the stream to its end.
C6_Witness ==
  \E s \in StreamIds :
     /\ streams[s].consumer = "ended"
     /\ streams[s].outcome.kind = "http"
     /\ streams[s].outcome.resp.status = 200
     /\ streams[s].outcome.resp.ctype = AgentText.STR_APPLICATION_JSON
     /\ streams[s].outcome.resp.readExc = NoExc
     /\ streams[s].outcome.resp.parsed =
          PDict(<< <<AgentText.KEY_OUTPUT, PDict(<< <<AgentText.KEY_TEXT, PNone>> >>)>> >>)
     /\ Concat(streams[s].received) = AgentText.TEXT_NO_RESPONSE

\* C7: a resolved text of length L is sent as ceil(L/50) chunks, each but the last of
\* exactly 50 characters, the last of 1 to 50, and the chunks concatenated in the
\* order sent give the text back.
C7_ChunkingRoundTrip ==
  \A s \in StreamIds :
     LET L == Len(streams[s].text)
         E == Emitted(s)
     IN  /\ Resolved(s) =>
              /\ Len(E) <= CeilDiv50(L)
              /\ \A n \in 1..Len(E) :
                   /\ n < CeilDiv50(L) => Len(E[n].delta.content) = 50
                   /\ n = CeilDiv50(L) =>
                        Len(E[n].delta.content) >= 1 /\ Len(E[n].delta.content) <= 50
              /\ Concat(E) = SubSeq(streams[s].text, 1, Len(Concat(E)))
         /\ streams[s].pc = "done" =>
              /\ Len(E) = CeilDiv50(L)
              /\ Concat(E) = streams[s].text

\* C7 witness: a text of 101 characters was sent as three chunks of 50, 50 and 1, and
\* its consumer has read all three.
C7_Witness ==
  \E s \in StreamIds :
     /\ streams[s].pc = "done"
     /\ Len(streams[s].text) = 101
     /\ Len(streams[s].received) = 3
     /\ Len(streams[s].received[3].delta.content) = 1

\* C8: the channel of a stream is closed once, after the last chunk was sent and never
\* before; nothing is sent after the close; a consumer that has read every chunk gets
\* a clean end of stream on its next read, not an error.
C8_CompletionOnceAfterLastChunk ==
  \A s \in StreamIds :
     /\ streams[s].closes <= 1
     /\ streams[s].pc = "done" <=> streams[s].closes = 1
     /\ streams[s].closes = 1 =>
          /\ Concat(Emitted(s)) = streams[s].text
          /\ Len(Emitted(s)) = CeilDiv50(Len(streams[s].text))
     /\ streams[s].consumer # "error"
     /\ streams[s].consumer = "ended" =>
          /\ streams[s].closes = 1
          /\ streams[s].event_ch = << >>
          /\ Concat(streams[s].received) = streams[s].text

\* C8 witness: a stream of two chunks was closed and its consumer, having read both,
\* has seen the end of the stream.
C8_Witness ==
  \E s \in StreamIds :
     /\ streams[s].closes = 1
     /\ streams[s].consumer = "ended"
     /\ Len(streams[s].received) = 2

\* stream s sends its first chunk in this step
SendsFirstChunk(s) ==
  /\ s \in StreamIds
  /\ Len(Emitted(s)) = 0
  /\ Len(streams'[s].received \o streams'[s].event_ch) > 0

\* stream s completes in this step
Completes(s) ==
  /\ s \in StreamIds
  /\ streams[s].pc # "done"
  /\ streams'[s].pc = "done"

\* C9 (as stated): the complete text is in the side table under the stream's handle, as
\* an assistant message, when the first chunk is sent, and when the stream completes
\* the entry under its handle is that stream's complete text, also while other streams
\* of the adapter are in flight.
C9_SideTableHoldsOwnText ==
  [][\A s \in StreamIds :
       /\ SendsFirstChunk(s) =>
            cursors'[streams[s].chat_ctx] = AssistantMessage(streams'[s].text)
       /\ Completes(s) =>
            /\ cursors'[streams[s].chat_ctx] = AssistantMessage(streams'[s].text)
            /\ Concat(streams'[s].event_ch) = streams'[s].text]_vars

\* C9 (amended): the complete text is in the side table under the stream's handle, as
\* an assistant message, when the first chunk is sent; when the stream completes the
\* entry under its handle is the complete text of a stream of that handle whose text
\* is resolved: its own, unless another stream was given the same handle.
C9_SideTableHoldsTextOfHandle ==
  [][\A s \in StreamIds :
       /\ SendsFirstChunk(s) =>
            cursors'[streams[s].chat_ctx] = AssistantMessage(streams'[s].text)
       /\ Completes(s) =>
            /\ Concat(streams'[s].event_ch) = streams'[s].text
            /\ \E t \in StreamIds :
                 /\ streams[t].chat_ctx = streams[s].chat_ctx
                 /\ Resolved(t)
                 /\ cursors'[streams[s].chat_ctx] = AssistantMessage(streams[t].text)
            /\ (\A t \in StreamIds \ {s} : streams[t].chat_ctx # streams[s].chat_ctx)
                 => cursors'[streams[s].chat_ctx] = AssistantMessage(streams'[s].text)]_vars

\* C9 witness: a stream has completed while a stream of another handle is in flight,
\* and the side table holds each one's text under its own handle.
C9_Witness ==
  \E s, t \in StreamIds :
     /\ streams[s].pc = "done"
     /\ streams[t].pc = "sleeping"
     /\ streams[s].chat_ctx # streams[t].chat_ctx
     /\ streams[s].text # streams[t].text
     /\ cursors[streams[s].chat_ctx] = AssistantMessage(streams[s].text)
     /\ cursors[streams[t].chat_ctx] = AssistantMessage(streams[t].text)

\* the token is a non-empty string
C10_NonEmpty(token) == token.t = "str" /\ Len(token.s) > 0

\* headers carry "Authorization: Bearer <token>" for a non-empty token and no
\* Authorization entry at all for an empty or absent one
C10_HeadersFor(headers, token) ==
  IF C10_NonEmpty(token)
  THEN /\ "Authorization" \in DOMAIN headers
       /\ headers["Authorization"] = <<"B","e","a","r","e","r"," ">> \o token.s
  ELSE "Authorization" \notin DOMAIN headers

\* C10: every request of the adapter, of the scheduling client and of the persistence
\* client (JSON body or multipart) carries "Authorization: Bearer <token>" when the
\* token its component was configured with is non-empty, and no Authorization header
\* when that token is empty or absent.
C10_AuthHeaderIffToken ==
  /\ \A n \in 1..Len(wire) : C10_HeadersFor(wire[n].headers, webhook_token)
  /\ last_request.client = "scheduling" => C10_HeadersFor(last_request.headers, sched.api_token)
  /\ last_request.client = "persistence" =>
       C10_HeadersFor(last_request.headers, persist.api_token)

\* C10 witness: the adapter, configured with an empty token, has sent its request with
\* no Authorization header; the scheduling client, configured without a token, has
\* made a call; and the persistence client, configured with a token, has just sent a
\* multipart request that carries it.
C10_Witness ==
  /\ webhook_token = PStr(<< >>)
  /\ Len(wire) = 1
  /\ "Authorization" \notin DOMAIN wire[1].headers
  /\ sched.api_token = PNone
  /\ sched.sessions_created = 1
  /\ persist.api_token = PStr(SampleText.TOKEN_A)
  /\ last_request.client = "persistence"
  /\ last_request.body.kind = "multipart"
  /\ last_request.headers["Authorization"] = AgentText.STR_BEARER \o SampleText.TOKEN_A

\* the requests of stream s that were written to the network
RequestsOf(s) == {n \in 1..Len(wire) : wire[n].stream = s}

\* C11: chat() does no network I/O: the step that creates a stream writes nothing to
\* the network and leaves the stream with no POST issued; the POST of a turn is issued
\* by the stream's task, after chat() has returned; a stream driven to completion has
\* issued exactly one POST, whatever the outcome was, and never a second one.
C11_OnePostAfterChat ==
  /\ [](\A s \in StreamIds :
          /\ streams[s].posts <= 1
          /\ Cardinality(RequestsOf(s)) <= streams[s].posts
          /\ streams[s].pc = "created" => streams[s].posts = 0
          /\ streams[s].pc \in {"sleeping", "done"} => streams[s].posts = 1)
  /\ [][Len(streams') > Len(streams) =>
          /\ wire' = wire
          /\ streams'[Len(streams')].posts = 0
          /\ streams'[Len(streams')].pc = "created"]_vars

\* C11 witness: a stream whose POST was answered with status 500 has completed with one
\* POST on the wire, while the stream of a later chat() has not issued its POST yet.
C11_Witness ==
  \E s, t \in StreamIds :
     /\ streams[s].pc = "done"
     /\ streams[s].outcome.kind = "http"
     /\ streams[s].outcome.resp.status = 500
     /\ streams[s].posts = 1
     /\ Cardinality(RequestsOf(s)) = 1
     /\ streams[t].pc = "created"
     /\ streams[t].posts = 0
     /\ RequestsOf(t) = {}

\* the history a stream was created for
HistoryOf(s) == CHOOSE c \in HistoryContexts : c.id = streams[s].chat_ctx

\* the text of a list content: that of the first part that is a string or has .text
RECURSIVE C12_PartsText(_)
C12_PartsText(parts) ==
  IF Len(parts) = 0 THEN << >>
  ELSE IF Head(parts).t = "str" THEN Head(parts).s
  ELSE IF Head(parts).t = "obj" THEN Head(parts).text.s
  ELSE C12_PartsText(Tail(parts))

\* the text of one message
C12_MessageText(msg) ==
  CASE msg.content.t = "str" -> msg.content.s
    [] msg.content.t = "list" -> C12_PartsText(msg.content.parts)
    [] msg.content.t = "obj" -> msg.content.text.s
    [] OTHER -> << >>

\* the positions of the user messages of a history, and of those with a text
C12_Users(msgs) == {k \in 1..Len(msgs) : msgs[k].role = "user"}

C12_UsersWithText(msgs) == {k \in C12_Users(msgs) : C12_MessageText(msgs[k]) # << >>}

C12_Last(K) == CHOOSE k \in K : \A j \in K : j <= k

\* the histories whose messages chat() can read
C12_Readable(c) == c.access \in {"messages", "items", "iter"}

\* C12 (as stated): input.text is the text of the most recent user message of the
\* history (other roles skipped; of a list content, the first part that is a string
\* or has a text).
C12_TextOfLatestUserMessage ==
  \A s \in StreamIds :
     LET c == HistoryOf(s) IN
     (C12_Readable(c) /\ C12_Users(c.msgs) # {}) =>
        streams[s].payload.input.text = PStr(C12_MessageText(c.msgs[C12_Last(C12_Users(c.msgs))]))

\* C12 (amended): input.text is the text of the most recent user message that has a
\* non-empty text: user messages with no text are skipped like the messages of other
\* roles, so an earlier user message is used when the latest one is empty.
C12_TextOfLatestNonEmptyUserMessage ==
  \A s \in StreamIds :
     LET c == HistoryOf(s) IN
     (C12_Readable(c) /\ C12_UsersWithText(c.msgs) # {}) =>
        streams[s].payload.input.text =
          PStr(C12_MessageText(c.msgs[C12_Last(C12_UsersWithText(c.msgs))]))

\* C12 witness: chat() on the history user "A", assistant, user "B", assistant built a
\* payload with the text "B".
C12_Witness ==
  \E s \in StreamIds :
     /\ streams[s].chat_ctx = "h1"
     /\ streams[s].payload.input.text = PStr(<<"B">>)

\* the histories with no user text to extract: unreadable, or no user message with a text
C13_NoText(c) == ~C12_Readable(c) \/ C12_UsersWithText(c.msgs) = {}

\* C13: chat() returns a stream and increments the counter for every history, and the
\* payload's input.text is the empty string, not a placeholder, when the history has
\* no user message, no text to extract, or cannot be read as a history at all.
C13_EmptyTextNoPlaceholder ==
  /\ turn_counter = Len(streams)
  /\ \A s \in StreamIds :
       /\ streams[s].payload.turn_id = <<"t", "_">> \o Dec(s)
       /\ C13_NoText(HistoryOf(s)) => streams[s].payload.input.text = PStr(<< >>)

\* C13 witness: chat() on an object that is no history at all returned a stream whose
\* payload has the empty text, and the counter is 1.
C13_Witness ==
  /\ turn_counter = 1
  /\ \E s \in StreamIds :
       /\ streams[s].chat_ctx = "h15"
       /\ streams[s].payload.input.text = PStr(<< >>)
       /\ streams[s].payload.turn_id = <<"t", "_", "1">>

\* the timeouts of the POST: asyncio.TimeoutError and its subclasses
C14_IsTimeout(e) == e.cls \in {"asyncio.TimeoutError", "aiohttp.ServerTimeoutError"}

\* {"error": error, "detail": detail}
C14_ErrorDict(error, detail) ==
  [t |-> "dict", items |-> << <<ClientText.STR_ERROR, [t |-> "str", s |-> error]>>,
                              <<ClientText.STR_DETAIL, [t |-> "str", s |-> detail]>> >>]

\* the exception of an outcome: raised by the POST, or by reading the body
C14_Raised(o) == IF o.kind = "exc" THEN o.exc ELSE o.resp.readExc

\* what the outcomes other than an HTTP 200 whose body was read give
C14_FailureCases(o, val) ==
  /\ (o.kind = "http" /\ o.resp.status # 200 /\ o.resp.readExc = NoExc) =>
        val = C14_ErrorDict(<<"H","T","T","P"," ">> \o Dec(o.resp.status), o.resp.raw)
  /\ (C14_Raised(o) # NoExc /\ C14_IsTimeout(C14_Raised(o))) =>
        val = C14_ErrorDict(<<"t","i","m","e","o","u","t">>, ClientText.STR_REQUEST_TIMED_OUT)
  /\ (C14_Raised(o) # NoExc /\ ~C14_IsTimeout(C14_Raised(o))) =>
        val = C14_ErrorDict(ClassName(C14_Raised(o).cls), C14_Raised(o).msg)

\* the content type says JSON
C14_JsonType(r) ==
  Len(r.ctype) >= 16 /\ SubSeq(r.ctype, 1, 16) = AgentText.STR_APPLICATION_JSON

\* C14 (as stated): _call_webhook never raises; on HTTP 200 it returns the parsed JSON
\* body as it is, on another status {"error": "HTTP <status>", "detail": <body>}, on
\* a timeout {"error": "timeout", "detail": "Request timed out"}, on any other
\* exception {"error": <type name>, "detail": <text>}.
C14_ResultByOutcome ==
  last_request.client = "scheduling" =>
    LET o == last_result.outcome IN
    /\ ~last_result.raised
    /\ (o.kind = "http" /\ o.resp.status = 200 /\ o.resp.readExc = NoExc
          /\ o.resp.parsed # InvalidJson) => last_result.val = o.resp.parsed
    /\ C14_FailureCases(o, last_result.val)

\* C14 (amended): as above, where the parsed body is returned on HTTP 200 only when the
\* response declares a JSON content type (None for an empty body); an HTTP 200 whose
\* body is not declared as JSON or is not JSON gives the dict of the exception that
\* response.json() raises: {"error": "ContentTypeError" or "JSONDecodeError", ...}.
C14_ResultByOutcomeAndContentType ==
  last_request.client = "scheduling" =>
    LET o == last_result.outcome IN
    /\ ~last_result.raised
    /\ (o.kind = "http" /\ o.resp.status = 200 /\ o.resp.readExc = NoExc) =>
         /\ (C14_JsonType(o.resp) /\ o.resp.parsed # InvalidJson) =>
               last_result.val = o.resp.parsed
         /\ (C14_JsonType(o.resp) /\ o.resp.raw = << >>) => last_result.val = PNone
         /\ ~C14_JsonType(o.resp) =>
               /\ last_result.val.t = "dict"
               /\ last_result.val.items[1] = <<ClientText.STR_ERROR, PStr(RuntimeText.NAME_ContentTypeError)>>
         /\ (C14_JsonType(o.resp) /\ o.resp.raw # << >> /\ o.resp.parsed = InvalidJson) =>
               /\ last_result.val.t = "dict"
               /\ last_result.val.items[1] = <<ClientText.STR_ERROR, PStr(RuntimeText.NAME_JSONDecodeError)>>
    /\ C14_FailureCases(o, last_result.val)

\* C14 witness: check_availability was answered with status 500 and the body "Server
\* error", and returned {"error": "HTTP 500", "detail": "Server error"}.
C14_Witness ==
  /\ last_request.client = "scheduling"
  /\ last_request.url = SampleText.URL_PLAIN \o <<"/">> \o ClientText.EP_CHECK_AVAILABILITY
  /\ last_result.outcome.kind = "http"
  /\ last_result.outcome.resp.status = 500
  /\ last_result.val = C14_ErrorDict(<<"H","T","T","P"," ","5","0","0">>, SampleText.STR_SERVER_ERROR)

\* the two client instances
C15_Clients == <<sched, persist>>

\* C15 (as stated): a client creates its session on the first call and never a second
\* one, over any sequence of calls and close()s.
C15_AtMostOneSessionEver ==
  \A n \in 1..2 :
     /\ C15_Clients[n].sessions_created <= 1
     /\ C15_Clients[n].calls = 0 => C15_Clients[n].sessions_created = 0

\* C15 (amended): a client creates no session before its first call, has at most one
\* session that is not closed, and a call creates a session only when there is none or
\* when the last one was closed by close(); calls with no close() between them use
\* the same session.
C15_OneOpenSessionReusedUntilClosed ==
  /\ [](\A n \in 1..2 :
          LET c == C15_Clients[n] IN
          /\ c.calls = 0 => (c.sessions_created = 0 /\ c.session = "None")
          /\ c.calls > 0 => c.sessions_created >= 1
          /\ c.sessions_created <= c.sessions_closed + 1
          /\ c.session = "open" <=> c.sessions_created = c.sessions_closed + 1
          /\ c.sessions_created <= c.calls)
  /\ [][/\ (sched'.calls > sched.calls /\ sched.session = "open") =>
             /\ sched'.sessions_created = sched.sessions_created
             /\ last_request'.session = sched.sessions_created
        /\ (persist'.calls > persist.calls /\ persist.session = "open") =>
             /\ persist'.sessions_created = persist.sessions_created
             /\ last_request'.session = persist.sessions_created
        /\ sched'.calls > sched.calls => sched'.session = "open"
        /\ persist'.calls > persist.calls => persist'.session = "open"]_vars

\* C15 witness: the scheduling client has made two calls on the one session it created.
C15_Witness ==
  /\ sched.calls = 2
  /\ sched.sessions_created = 1
  /\ sched.session = "open"
  /\ last_request.client = "scheduling"
  /\ last_request.session = 1

\* C16: close() never raises and never creates a session; with no session or with a
\* closed one it changes nothing; every session created is closed at most once.
C16_CloseIdempotent ==
  /\ [](\A n \in 1..2 :
          /\ ~C15_Clients[n].close_raised
          /\ C15_Clients[n].sessions_closed <= C15_Clients[n].sessions_created)
  /\ [][/\ (sched' # sched /\ sched'.calls = sched.calls) =>
             /\ sched'.sessions_created = sched.sessions_created
             /\ sched.session = "open"
             /\ sched'.session = "closed"
             /\ sched'.sessions_closed = sched.sessions_closed + 1
        /\ (persist' # persist /\ persist'.calls = persist.calls) =>
             /\ persist'.sessions_created = persist.sessions_created
             /\ persist.session = "open"
             /\ persist'.session = "closed"
             /\ persist'.sessions_closed = persist.sessions_closed + 1]_vars

\* C16 witness: after its one call the persistence client was closed twice (three
\* operations in all, none on the scheduling client): its session was closed once.
C16_Witness ==
  /\ persist.calls = 1
  /\ persist.session = "closed"
  /\ persist.sessions_created = 1
  /\ persist.sessions_closed = 1
  /\ calls = 3
  /\ sched.calls = 0
  /\ sched.session = "None"
  /\ ~persist.close_raised

\* the POST was answered with HTTP 200 and a body that was read
C17_Answered200(o) ==
  o.kind = "http" /\ o.resp.status = 200 /\ o.resp.readExc = NoExc

\* what every call of store_conversation keeps, whatever the answer: nothing raised, a
\* bool returned, one POST to {base_url}/store_conversation and no more
C17_OnePostNeverRaises ==
  /\ ~last_result.raised
  /\ last_result.val \in {PBool(TRUE), PBool(FALSE)}
  /\ last_request.url = SampleText.URL_PLAIN \o <<"/">> \o PersistText.EP_STORE_CONVERSATION
  /\ persist.posts = persist.calls
  /\ (~C17_Answered200(last_result.outcome)) => last_result.val = PBool(FALSE)

\* C17 (as stated): store_conversation never raises, posts once, and returns true
\* exactly when the answer is HTTP 200 with a body that parses as JSON.
C17_TrueIffStatus200AndJsonBody ==
  last_request.client = "persistence" =>
    /\ C17_OnePostNeverRaises
    /\ last_result.val = PBool(TRUE) <=>
         (C17_Answered200(last_result.outcome)
            /\ last_result.outcome.resp.parsed # InvalidJson)

\* C17 (amended): store_conversation never raises, posts once, and returns true
\* exactly when the answer is HTTP 200, declares a JSON content type, and its body is
\* empty or parses as JSON.
C17_TrueIffStatus200AndJsonResponse ==
  last_request.client = "persistence" =>
    /\ C17_OnePostNeverRaises
    /\ last_result.val = PBool(TRUE) <=>
         (/\ C17_Answered200(last_result.outcome)
          /\ C14_JsonType(last_result.outcome.resp)
          /\ \/ last_result.outcome.resp.raw = << >>
             \/ last_result.outcome.resp.parsed # InvalidJson)

\* C17 witness: a second store_conversation, answered with status 500, returned False
\* after two POSTs in two calls.
C17_Witness ==
  /\ last_request.client = "persistence"
  /\ persist.calls = 2
  /\ persist.posts = 2
  /\ last_result.outcome.kind = "http"
  /\ last_result.outcome.resp.status = 500
  /\ last_result.val = PBool(FALSE)

\* the metadata mapping in a request of the remote store_conversation: the JSON body,
\* or the "metadata" part of the multipart body
C18_Sent(req) ==
  IF req.body.kind = "json" THEN req.body.value.dumps ELSE req.body.fields[1].value.dumps

\* the JSON files of the local output directory
C18_JsonFiles == {p \in DOMAIN local.files : "dumps" \in DOMAIN local.files[p]}

\* a mapping holds a key for exactly the fields of the data that are not None, each
\* with the value of the data
C18_KeepsExactlyNonNone(mapping) ==
  \A f \in DataFieldSet :
     /\ f \in DOMAIN mapping => (conversation[f] # PNone /\ mapping[f] = conversation[f])
     /\ conversation[f] # PNone => f \in DOMAIN mapping

\* C18: the payload either persistence implementation builds from a ConversationData
\* has a key for a field only if the field is not None, and keeps every field that is
\* set, also to a falsy value such as test_mode = False or a count of 0.
C18_NoneDroppedFalsyKept ==
  /\ last_request.client = "persistence" => C18_KeepsExactlyNonNone(C18_Sent(last_request))
  /\ \A p \in C18_JsonFiles : C18_KeepsExactlyNonNone(local.files[p].dumps)

\* C19: with no audio, the mapping the local implementation writes for a
\* ConversationData is the mapping the remote implementation sends for it.
C19_LocalWritesWhatRemoteSends ==
  last_request.client = "persistence" =>
    \A p \in C18_JsonFiles :
       "audio_file_local" \notin DOMAIN local.files[p].dumps =>
          local.files[p].dumps = C18_Sent(last_request)
=============================================================================
